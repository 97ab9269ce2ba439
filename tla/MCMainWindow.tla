---------------------------- MODULE MCMainWindow ----------------------------
(* TLC instances of MainWindow: two pages, of which the last keeps the       *)
(* normal minimum size; paused and one or two speeds; two usages.            *)
EXTENDS MainWindow

LastPage == {PageCount - 1}
OneSpeed == {0, 1}
TwoSpeeds == {0, 1, 2}
TwoUsages == {0, 50}
=============================================================================
