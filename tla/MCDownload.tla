------------------------------ MODULE MCDownload -------------------------------
(***************************************************************************)
(* Two callers, two messages, an output on each device.                    *)
(***************************************************************************)
EXTENDS Download, TLC

CONSTANTS c1, c2, m1, m2, near, far

MCCall == {c1, c2}
MCMsg == {m1, m2}
MCOutput == {near, far}
MCAbroad == {far}
DownloadSymmetry == Permutations(MCCall) \union Permutations(MCMsg)
===============================================================================
