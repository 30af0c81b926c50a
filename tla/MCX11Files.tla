----------------------------- MODULE MCX11Files -----------------------------
(***************************************************************************)
(* An instance of X11Files for TLC.                                        *)
(***************************************************************************)
EXTENDS X11Files

CONSTANTS f1, f2, dir, large, web  \* lines of lists

\* A file with a folder, a file, one with a large one, and a web address on
\* offer as a file.
Clips ==
    {[formats |-> {"uri"}, lines |-> <<f1, dir>>, text |-> f1],
     [formats |-> {"gnome"}, lines |-> <<Header, f2>>, text |-> f2],
     [formats |-> {"gnome"}, lines |-> <<Header, f1, large>>, text |-> f1],
     [formats |-> {"uri", "gnome"}, lines |-> <<web>>, text |-> web]}

Lists == {<<f2, f1>>}
=============================================================================
