------------------------------ MODULE HidReports ------------------------------
(***************************************************************************)
(* From a HID input report to the four command words: uni_hid_parser.c,    *)
(* the parsers of Bluepad32 that are driven by a HID descriptor, the       *)
(* Steam Controller's parser of raw reports, and my_on_controller_data.    *)
(* One action is one report, all on the run loop.  Of the gamepad only the *)
(* sticks and pedals are kept; buttons, pads and the battery never reach   *)
(* the command words.                                                      *)
(***************************************************************************)
EXTENDS Integers, Sequences

CONSTANTS Devices,    \* peers: parser, usages of right stick and pedal, and the
                      \* hid_globals_t of sticks (g) and pedal (pg)
          Reports(_), \* a peer's reports: four stick values and a pedal's
          PadValues   \* 16-bit coordinates in the Steam Controller's reports

VARIABLES dev,        \* the peer
          ctl,        \* uni_hid_device_t.controller
          words,      \* bt_throttle, bt_yaw, bt_pitch, bt_roll
          sticks,     \* history: the stick values last reported
          full        \* history: the last report had them

vars == <<dev, ctl, words, sticks, full>>

AXIS_NORMALIZE_RANGE == 1024

-------------------------------------------------------------------------------
(* uni_hid_parser.c *)

\* The C quotient rounds towards zero.
Quotient(a, b) == IF a >= 0 THEN a \div b ELSE -((-a) \div b)

\* A maximum of -1 is an unsigned maximum that the descriptor parser has read as
\* a signed number.
Maximum(gl) == IF gl.max = -1 THEN 2 ^ gl.size - 1 ELSE gl.max
RangeOf(gl) == Maximum(gl) - gl.min + 1

\* An axis has at most 16 bits, so that the products below stay within 32.
Ranged(gl) == /\ gl.min \in Int /\ -32768 <= gl.min
              /\ Maximum(gl) \in Int /\ Maximum(gl) <= 65535
              /\ 2 <= RangeOf(gl) /\ RangeOf(gl) <= 65536

\* Mistake: the logical minimum is forgotten.
process_axis_off_centre(gl, v) ==
    Quotient((v - RangeOf(gl) \div 2) * AXIS_NORMALIZE_RANGE, RangeOf(gl))

process_axis(gl, v) ==
    Quotient((v - RangeOf(gl) \div 2 - gl.min) * AXIS_NORMALIZE_RANGE, RangeOf(gl))

(* The minimum is not subtracted, and the code computes with uint32_t: a negative
   product n stands for 2^32 + n, of which a quarter is 2^30. *)
Quarter == 1073741824
process_pedal(gl, v) ==
    LET R == RangeOf(gl)
        n == v * AXIS_NORMALIZE_RANGE
    IN  IF n >= 0 THEN n \div R
        ELSE 4 * (Quarter \div R) + (4 * (Quarter % R) + n) \div R

-------------------------------------------------------------------------------
(* The parsers' parse_usage: where a usage goes, and through which conversion. *)

android == [X |-> <<"axis_x", "axis">>,   Y |-> <<"axis_y", "axis">>,
            Z |-> <<"axis_rx", "axis">>,  RZ |-> <<"axis_ry", "axis">>,
            ACCELERATOR |-> <<"throttle", "pedal">>, BRAKE |-> <<"brake", "pedal">>]

xboxone == android

eightbitdo == android

\* RY is a "duplicate of AXIS_RZ", and yet converted as a pedal.
generic == [X |-> <<"axis_x", "axis">>,   Y |-> <<"axis_y", "axis">>,
            Z |-> <<"axis_rx", "axis">>,  RZ |-> <<"axis_ry", "axis">>,
            RX |-> <<"axis_rx", "axis">>, RY |-> <<"axis_ry", "pedal">>,
            ACCELERATOR |-> <<"throttle", "pedal">>, BRAKE |-> <<"brake", "pedal">>]

nimbus == [X |-> <<"axis_x", "axis">>,   Y |-> <<"axis_y", "inverted">>,
           Z |-> <<"axis_rx", "axis">>,  RZ |-> <<"axis_ry", "inverted">>,
           ACCELERATOR |-> <<"throttle", "pedal">>, BRAKE |-> <<"brake", "pedal">>]

ouya == [X |-> <<"axis_x", "axis">>,   Y |-> <<"axis_y", "axis">>,
         RX |-> <<"axis_rx", "axis">>, RY |-> <<"axis_ry", "axis">>,
         Z |-> <<"brake", "pedal">>,   RZ |-> <<"throttle", "pedal">>]

Table == [android |-> android, xboxone |-> xboxone, eightbitdo |-> eightbitdo,
          generic |-> generic, nimbus |-> nimbus, ouya |-> ouya]

(* A peer with a descriptor: its right stick and its pedal are any usages that the
   parser takes for them, and its values are in their logical ranges. *)
ASSUME DeviceAssumption ==
    /\ \A d \in Devices : d.parser # "steam" =>
          /\ d.parser \in DOMAIN Table
          /\ {d.rx, d.ry, d.pedal} \subseteq DOMAIN Table[d.parser]
          /\ Table[d.parser][d.rx][1] = "axis_rx" /\ Table[d.parser][d.ry][1] = "axis_ry"
          /\ Table[d.parser][d.pedal][1] \in {"throttle", "brake"}
          /\ Ranged(d.g) /\ Ranged(d.pg)
          /\ \A r \in Reports(d) : /\ \A i \in 1 .. 4 : r[i] \in d.g.min .. Maximum(d.g)
                                   /\ r[5] \in d.pg.min .. Maximum(d.pg)
    /\ \A x \in PadValues : x \in Int /\ -32768 <= x /\ x <= 32767

Convert(how, f) == CASE how = "axis" -> process_axis(f.g, f.v)
                     [] how = "inverted" -> -process_axis(f.g, f.v)
                     [] how = "pedal" -> process_pedal(f.g, f.v)

\* The fields of a report that a parser puts into one member of the gamepad.
FieldsTo(parser, fields, member) ==
    {k \in DOMAIN fields : /\ fields[k].u \in DOMAIN Table[parser]
                           /\ Table[parser][fields[k].u][1] = member}

\* The last one of them sets it.
AxisAfter(c, parser, fields, member) ==
    LET S == FieldsTo(parser, fields, member)
        f == fields[CHOOSE k \in S : \A j \in S : j <= k]
    IN  IF S = {} THEN c[member] ELSE Convert(Table[parser][f.u][2], f)

\* parse_usage for one field after the other.
parse_usage(c, parser, fields) ==
    [member \in DOMAIN c |-> AxisAfter(c, parser, fields, member)]

\* init_report of all these parsers: "Reset old state."
init_report == [axis_x |-> 0, axis_y |-> 0, axis_rx |-> 0, axis_ry |-> 0,
                brake |-> 0, throttle |-> 0]

\* my_on_controller_data
WordsOf(c) == [throttle |-> c.axis_ry, yaw |-> c.axis_rx,
               pitch |-> c.axis_y, roll |-> c.axis_x]

\* uni_hid_parse_input_report, uni_hid_device_process_controller (the default
\* mappings leave the gamepad as it is) and my_on_controller_data.
parse_input_report(fields) ==
    /\ ctl' = parse_usage(init_report, dev.parser, fields)
    /\ words' = WordsOf(ctl')

-------------------------------------------------------------------------------
(* The Steam Controller: no descriptor, and no reset before a report. *)

\* Mistake: the sign of the pad's y is kept.
Negated_not(y) == y

\* y = -y in 16 bits: the lowest value has no opposite.
Negated(y) == IF y = -32768 THEN y ELSE -y

\* parse_thumbstick and parse_right_pad; >> 6 of a signed number.
PadAxes(pad) == <<pad[1] \div 64, Negated(pad[2]) \div 64>>

\* parse_triggers: the two bytes of the first coordinate.
Triggers(pad) == <<(pad[1] % 256) * 4, ((pad[1] \div 256) % 256) * 4>>

\* uni_hid_parser_steam_parse_input_report: a section is read only if its flag is
\* set, and every section but the right pad's from the same place.
steam_parse(flags, pads) ==
    LET right == IF "left_pad" \in flags THEN pads[2] ELSE pads[1] IN
    /\ ctl' = [ctl EXCEPT
          !.brake    = IF "triggers" \in flags THEN Triggers(pads[1])[1] ELSE @,
          !.throttle = IF "triggers" \in flags THEN Triggers(pads[1])[2] ELSE @,
          !.axis_x   = IF "thumbstick" \in flags THEN PadAxes(pads[1])[1] ELSE @,
          !.axis_y   = IF "thumbstick" \in flags THEN PadAxes(pads[1])[2] ELSE @,
          !.axis_rx  = IF "right_pad" \in flags THEN PadAxes(right)[1] ELSE @,
          !.axis_ry  = IF "right_pad" \in flags THEN PadAxes(right)[2] ELSE @]
    /\ words' = WordsOf(ctl')
    /\ sticks' = [i \in 1 .. 4 |->
          CASE i < 3 /\ "thumbstick" \in flags -> pads[1][i]
            [] i > 2 /\ "right_pad" \in flags -> right[i - 2]
            [] OTHER -> sticks[i]]

-------------------------------------------------------------------------------
(* The peer. *)

Field(u, v, gl) == [u |-> u, v |-> v, g |-> gl]

\* A report of the sticks and the pedal.
FullReport ==
    /\ dev.parser # "steam"
    /\ \E r \in Reports(dev) :
          /\ parse_input_report(
                <<Field("X", r[1], dev.g), Field("Y", r[2], dev.g),
                  Field(dev.rx, r[3], dev.g), Field(dev.ry, r[4], dev.g),
                  Field(dev.pedal, r[5], dev.pg)>>)
          /\ sticks' = [i \in 1 .. 4 |-> r[i]]
    /\ full' = TRUE
    /\ UNCHANGED dev

\* A report without them, as that of the battery in the Xbox descriptor.
BatteryReport == /\ dev.parser # "steam"
                 /\ parse_input_report(<<>>)
                 /\ full' = FALSE
                 /\ UNCHANGED <<dev, sticks>>

SteamReport ==
    /\ dev.parser = "steam"
    /\ \E flags \in SUBSET {"triggers", "thumbstick", "left_pad", "right_pad"},
         first, second \in PadValues \X PadValues : steam_parse(flags, <<first, second>>)
    /\ UNCHANGED <<dev, full>>

Init == /\ dev \in Devices
        /\ ctl = init_report /\ words = WordsOf(init_report)
        /\ sticks = [i \in 1 .. 4 |-> 0]
        /\ full = (dev.parser = "steam")

Next == FullReport \/ BatteryReport \/ SteamReport

Spec == Init /\ [][Next]_vars

-------------------------------------------------------------------------------
(* Properties. *)

\* The throttle word comes through the pedals' conversion.
ThrottleIsPedal == dev.parser # "steam" /\ Table[dev.parser][dev.ry][2] = "pedal"
PedalRange(gl) == IF gl.min = 0 THEN 0 .. 1023 ELSE Nat

(* The words of a stick are in the virtual gamepad's "axis: -512, 511"; the Nimbus
   parser, which negates, reaches 512.  A pedal with a logical minimum of 0 is in
   "0-1023", with another it may be anything from 0 up.  The right stick of a generic
   peer that sends RY is converted as a pedal: its throttle word is outside the range
   of a stick, but never negative, which alone would be thrust. *)
AxesInRange ==
    LET negated == -512 .. (IF dev.parser = "nimbus" THEN 512 ELSE 511) IN
    /\ words.roll \in -512 .. 511 /\ words.yaw \in -512 .. 511
    /\ words.pitch \in negated
    /\ words.throttle \in IF ThrottleIsPedal THEN PedalRange(dev.g) ELSE negated
    /\ {ctl.brake, ctl.throttle} \subseteq
          IF dev.parser = "steam" THEN 0 .. 1023 ELSE PedalRange(dev.pg)

Inverted(i) == i \in {2, 4} /\ dev.parser \in {"nimbus", "steam"}
WordAt(w, i) == <<w.roll, w.pitch, w.yaw, w.throttle>>[i]
Unordered(i) == \/ i \in {2, 4} /\ dev.parser = "steam" /\ -32768 \in {sticks[i], sticks'[i]}
                \/ i = 4 /\ ThrottleIsPedal /\ dev.g.min < 0
StickOrderStep ==
    \A i \in 1 .. 4 : full /\ full' /\ ~Unordered(i) /\ sticks'[i] >= sticks[i] =>
        IF Inverted(i) THEN WordAt(words', i) <= WordAt(words, i)
                       ELSE WordAt(words', i) >= WordAt(words, i)

(* Moving a stick one way never moves its word the other way, from one end of the
   range to the other ("Stick nach Oben = negativ (-512) bei Bluepad32"): the
   quotient that rounds towards zero, the centring and the sign are all monotone.
   What breaks the order is -32768 on an axis that the Steam Controller's parser
   negates in 16 bits, and negative values of generic's RY, which become large. *)
StickOrder == [][StickOrderStep]_vars
===============================================================================
