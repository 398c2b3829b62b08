----------------------------- MODULE MCHidReports -----------------------------
(* Instances of HidReports: brands of peers and the logical ranges of their axes. *)
EXTENDS HidReports

\* 16 bits unsigned, 8 bits signed, a range of odd length from 1, and the maximum
\* that reads as -1.
AllGlobals == {[min |-> 0, max |-> 65535, size |-> 16],
               [min |-> -127, max |-> 127, size |-> 8],
               [min |-> 1, max |-> 255, size |-> 8],
               [min |-> 0, max |-> -1, size |-> 8]}

Peers(parser, rx, ry, pedal) ==
    {[parser |-> parser, rx |-> rx, ry |-> ry, pedal |-> pedal, g |-> gl, pg |-> pl] :
        gl, pl \in AllGlobals}

AllPeers == UNION {Peers("xboxone", "Z", "RZ", "BRAKE"),
                   Peers("android", "Z", "RZ", "ACCELERATOR"),
                   Peers("eightbitdo", "Z", "RZ", "ACCELERATOR"),
                   Peers("generic", "Z", "RZ", "ACCELERATOR"),
                   Peers("generic", "RX", "RY", "BRAKE"),
                   Peers("ouya", "RX", "RY", "RZ"),
                   Peers("nimbus", "Z", "RZ", "ACCELERATOR"),
                   {[parser |-> "steam"]}}

\* The ends and the middle of an axis.
AxisSamples(gl) == LET centre == gl.min + RangeOf(gl) \div 2 IN
    {gl.min, gl.min + 1, centre - 1, centre, centre + 1, Maximum(gl) - 1, Maximum(gl)}

\* The pedal is released while the first stick is at its lower end, and else pressed.
Pedal(d, v) == IF v = d.g.min THEN d.pg.min ELSE Maximum(d.pg)
MCReports(d) == {<<v, w, w, v, Pedal(d, v)>> : v, w \in AxisSamples(d.g)}
PadRange == {-32768, -32767, 32767}
===============================================================================
