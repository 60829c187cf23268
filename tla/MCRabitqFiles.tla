---------------------------- MODULE MCRabitqFiles ----------------------------
\* Small instances of RabitqFiles: both kinds, rotators that pad and that do
\* not, every width that is packed in its own way, requests that are refused
\* or panic, a full and a partial batch, a cluster over the limit.
EXTENDS RabitqFiles

Asked(kind, rotator, dims, widths, rows, nlist) ==
  [kind : {kind}, rotator : {rotator}, dim : dims, bits : widths, rows : {rows}, nlist : {nlist}]

MCRequests ==
  Asked("ivf", "fht", {4}, {3}, 1, 2)
    \cup Asked("ivf", "fht", {4}, {1, 5, 7}, 1, 1)
    \cup Asked("ivf", "matrix", {12, 16}, {3}, 33, 1)
    \cup Asked("ivf", "matrix", {8}, {1}, 41, 1)
    \cup Asked("ivf", "fht", {4}, {3}, 2, 2)
    \cup Asked("brute", "matrix", {16}, {0, 1, 2, 3, 7, 9, 17}, 2, 0)
    \cup Asked("brute", "matrix", {8, 20}, {1, 3}, 1, 0)
    \cup Asked("brute", "fht", {65}, {3, 4}, 1, 0)
    \cup Asked("brute", "fht", {65}, {3}, 0, 0)
=============================================================================
