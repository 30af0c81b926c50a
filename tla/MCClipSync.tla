----------------------------- MODULE MCClipSync -----------------------------
(***************************************************************************)
(* Instances of ClipSync for TLC: the bounds of each run.  A run with      *)
(* several of them covers combinations of faults without their product.    *)
(***************************************************************************)
EXTENDS ClipSync

CONSTANTS a, b, l, c,  \* text; l stays at home, c is pulled where a run pulls
          i, j,        \* an image and what the OS may make of it
          f, g         \* files, and the same files under other names

Never == [d \in Device |-> 0]
OnlyFirst == [d \in Device |-> IF d = 1 THEN 1 ELSE 0]
FirstTwo == [d \in Device |-> IF d \in {1, 2} THEN 1 ELSE 0]
SecondTwice == [FirstTwo EXCEPT ![2] = 2]

\* Two devices; clips are copied and nothing else happens.
Calm(clips, copies) ==
    [devices |-> {1, 2}, wall |-> {1}, clips |-> clips, epoch |-> 0, copies |-> copies,
     drops |-> Never, restarts |-> Never, toggles |-> Never, failures |-> Never,
     altered |-> Never]

\* Text, in peace, with wall clocks that differ.  A restart of the first app.
\* Its connection breaks, or sync is switched off.  Clips that are pulled while
\* the key is rotated and sync switched off.  Three devices: a connection
\* breaks and a write to a clipboard fails; wall clocks differ and a write fails.
\* An image that both clipboards may re-encode; files that may not be read back.
SyncLimits ==
    {[Calm({a, b}, SecondTwice) EXCEPT !.wall = Wall],
     [Calm({a, b}, FirstTwo) EXCEPT !.restarts = OnlyFirst],
     [Calm({a, b}, FirstTwo) EXCEPT !.drops = OnlyFirst, !.toggles = OnlyFirst],
     [Calm({a, c}, FirstTwo) EXCEPT !.epoch = 1, !.toggles = OnlyFirst],
     [Calm({a, l}, FirstTwo) EXCEPT !.devices = Device, !.drops = OnlyFirst,
                                    !.failures = OnlyFirst],
     [Calm({a, l}, FirstTwo) EXCEPT !.devices = Device, !.wall = Wall,
                                    !.failures = OnlyFirst],
     [Calm({i}, FirstTwo) EXCEPT !.altered = FirstTwo],
     [Calm({a, f}, FirstTwo) EXCEPT !.altered = OnlyFirst]}

\* Nothing breaks.
CalmLimits == {Calm({a, b}, SecondTwice)}

\* The connection of the first device breaks.
DropLimits == {[Calm({a}, FirstTwo) EXCEPT !.drops = OnlyFirst]}
=============================================================================
