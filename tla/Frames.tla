------------------------------- MODULE Frames -------------------------------
(***************************************************************************)
(* What happens to a frame between the wire and the caller, all of it in   *)
(* place, in the caller's buffer: the FX3's marker words and PlayerOne's   *)
(* frame markers are replaced by nearby pixels, a frame that starts in the *)
(* middle of another is refused, the factory defect map is applied, and    *)
(* the host bin writes the binned frame over the front of the wire frame.  *)
(*                                                                         *)
(* A sample is known by where it comes from: the set of wire pixels it is  *)
(* a mean or a sum of.  Its value, the clip at 255 and the rounding are    *)
(* left out.                                                               *)
(*                                                                         *)
(* An operator whose name starts with Faulty is a mutated form of the      *)
(* definition after it.                                                    *)
(***************************************************************************)
EXTENDS Integers

CONSTANTS
  Wires,   \* [fx3, vendor, color : BOOLEAN, bpp, w, h : Nat, soft, bin : Nat]: the profile,
           \* the wire frame, SoftBin and the bin in all
  Starts,  \* marker words into the buffer at which the frame may begin
  Seconds, \* samples into a die-binned frame at which it may carry a second marker, 0 for none
  Maps     \* the pixels a defect map names, as positions in the sensor's array

\* What the constants may be: one vendor's marks at a time, windows of at least the
\* steps of SetROI and a row more than a marker's repair steps, a boundary that lies in
\* the buffer; and where the vendor marks frames, a step of rows as long as a marker,
\* and a second marker after what the first one's repair reads.
FramesConstants ==
  /\ Starts \subseteq Nat /\ Seconds \subseteq Nat
  /\ Wires \subseteq [fx3 : BOOLEAN, vendor : BOOLEAN, color : BOOLEAN, bpp : {1, 2}, w : Nat, h : Nat,
                     soft : Nat \ {0}, bin : Nat \ {0}]
  /\ \A v \in Wires :
       LET rows   == IF v.color THEN 2 ELSE 1
           marker == 12 \div v.bpp
       IN /\ ~(v.fx3 /\ v.vendor)
          /\ v.w >= (IF v.fx3 THEN 8 ELSE 4) /\ v.h > rows
          /\ v.fx3 => \A k \in Starts : k * (4 \div v.bpp) + 2 \div v.bpp <= v.w * v.h
          /\ v.vendor =>
               /\ rows * v.w >= marker /\ rows * v.w + marker <= v.w * v.h
               /\ \A s \in Seconds : s = 0 \/ (s >= rows * v.w + marker /\ s + marker <= v.w * v.h)

VARIABLES
  wire, start, second, flagged,  \* the frame, fixed
  buf,      \* position -> the set of wire pixels its sample is made of
  aligned,  \* what RepairFrame will report
  step,     \* where the caller is
  at        \* the loop's index within the step

conf == <<wire, start, second, flagged>>
vars == <<conf, buf, aligned, step, at>>

N == wire.w * wire.h

\* One read is of one frame and, when it starts early, of the end of the one
\* before: its pixels are N and above, the markers are below zero.
Header == -1
Footer == -2
Marker(j) == -10 - j

Word    == 4 \div wire.bpp    \* an FX3 marker word, in samples
Half    == Word \div 2       \* and the half of it that is constant
VendorL == 12 \div wire.bpp   \* poaFrameMarkerLen

\* markerRows: the Bayer period, or the next row.
Rows == IF wire.color THEN 2 ELSE 1

Overwrite(b, i, from, len) ==
  [p \in DOMAIN b |-> IF p \in i .. i + len - 1 THEN b[from + p - i] ELSE b[p]]

-----------------------------------------------------------------------------
(* What the device sends *)

Sent(q) ==
  IF q < 0 THEN IF wire.fx3 /\ q >= -Word THEN Footer ELSE 2 * N + q
  ELSE IF wire.fx3 /\ q < Word THEN Header
  ELSE IF wire.fx3 /\ q >= N - Word THEN Footer
  ELSE IF wire.vendor /\ q < VendorL THEN Marker(q)
  ELSE IF wire.vendor /\ second > 0 /\ q \in second .. second + VendorL - 1
       THEN Marker(q - second)
  ELSE q

\* The sensor's array is larger than the window by the window's origin, (2, 1).
Array(p) == ((p \div wire.w) + 1) * (wire.w + 2) + (p % wire.w) + 2
Flagged(p) == Array(p) \in flagged

\* The pixels around p at the stride of its colour, within the window.
Around(p) ==
  LET s == IF wire.color THEN 2 ELSE 1
      x == p % wire.w  y == p \div wire.w
  IN {q \in {p - s, p + s, p - s * wire.w, p + s * wire.w} :
        /\ q \in 0 .. N - 1
        /\ q % wire.w = x \/ q \div wire.w = y}

\* What the properties need of the map: a pixel it names has a neighbour before it
\* or one that is not named; no marker is replaced from one; none lies where an
\* early read has the markers that give it away.
Isolated    == \A p \in 0 .. N - 1 : Flagged(p) => {q \in Around(p) : q < p \/ ~Flagged(q)} # {}
SourcesGood == wire.fx3 =>
  \A i \in 0 .. Word - 1 : ~Flagged(Rows * wire.w + i) /\ ~Flagged(N - 1 - Rows * wire.w - i)
BoundaryKept == start > 0 => \A i \in start - Half .. start + Half - 1 : ~Flagged(i)

Init ==
  /\ wire \in Wires
  /\ start \in IF wire.fx3 THEN {k * Word : k \in Starts} ELSE {0}
  /\ second \in IF wire.vendor THEN Seconds ELSE {0}
  /\ flagged \in IF wire.vendor THEN {{}} ELSE Maps
  /\ Isolated /\ SourcesGood /\ BoundaryKept
  /\ buf = [p \in 0 .. N - 1 |-> {Sent(p - start)}]
  /\ aligned = TRUE /\ step = "fx3" /\ at = 0

-----------------------------------------------------------------------------
(* RepairFrame *)

Enter(s) == step' = s /\ at' = 0

\* repairFX3DMAMarkers: header and footer, each from a whole number of rows
\* away, or from beside it when the frame is too short for that.
RepairFX3 ==
  /\ step = "fx3"
  /\ IF ~wire.fx3 THEN UNCHANGED <<buf, aligned>>
     ELSE IF \A j \in 0 .. Half - 1 : buf[j] = {Header} /\ buf[N - 1 - j] = {Footer}
     THEN LET src  == IF Rows * wire.w + Word > N THEN Word ELSE Rows * wire.w
              head == Overwrite(buf, 0, src, Word)
          IN buf' = Overwrite(head, N - Word, N - Word - src, Word) /\ UNCHANGED aligned
     ELSE aligned' = FALSE /\ UNCHANGED buf
  /\ Enter("vendor")
  /\ UNCHANGED conf

\* poaMarkerAt
MarkerAt(i) == i + VendorL <= N /\ \A j \in 0 .. VendorL - 1 : buf[i + j] = {Marker(j)}

\* repairPOAFrameMarker: each marker from a step of rows below, or above when
\* that runs off the end; one with neither is left.
RepairVendor ==
  /\ step = "vendor"
  /\ LET found == {i \in at .. N - 1 : MarkerAt(i)}
     IN IF ~wire.vendor \/ found = {} \/ Rows * wire.w < VendorL
        THEN Enter("defects") /\ UNCHANGED buf
        ELSE LET i    == CHOOSE i \in found : \A j \in found : i <= j
                 src  == Rows * wire.w
                 from == IF i + src + VendorL > N THEN i - src ELSE i + src
                 fits == from >= 0 /\ from + VendorL <= N
             IN /\ buf' = IF fits THEN Overwrite(buf, i, from, VendorL) ELSE buf
                /\ at' = IF fits THEN i + VendorL ELSE i + 1
                /\ UNCHANGED step
  /\ UNCHANGED <<conf, aligned>>

\* The neighbours ApplyWindow takes: those that are not flagged, and those of
\* them it has been over.
Usable(p) == {q \in Around(p) : Array(q) <= Array(p) \/ ~Flagged(q)}

\* ApplyWindow, one defect; the map is in the window's order, and is not for
\* binned frames.
RepairDefect ==
  /\ step = "defects"
  /\ LET left == {p \in at .. N - 1 : Flagged(p)}
     IN IF wire.bin > 1 \/ left = {}
        THEN Enter("boundary") /\ UNCHANGED buf
        ELSE LET p == CHOOSE p \in left : \A q \in left : p <= q
             IN /\ buf' = IF Usable(p) = {} THEN buf
                          ELSE [buf EXCEPT ![p] = UNION {buf[q] : q \in Usable(p)}]
                /\ at' = p + 1
                /\ UNCHANGED step
  /\ UNCHANGED <<conf, aligned>>

\* fx3MarkerOffset finds a footer word with a header word after it.
Boundary ==
  \E i \in Half .. N - Half :
    i % Word = 0 /\ \A j \in 0 .. Half - 1 : buf[i + j] = {Header} /\ buf[i - 1 - j] = {Footer}

Judge ==
  /\ step = "boundary"
  /\ IF ~aligned /\ Boundary THEN Enter("refused") ELSE Enter("bin")
  /\ UNCHANGED <<conf, buf, aligned>>

-----------------------------------------------------------------------------
(* binFrame *)

OutW == wire.w \div wire.soft
OutH == wire.h \div wire.soft
Out  == OutW * OutH

\* The samples the output at (ox, oy) is made of: a block; or, on a mosaic, the
\* pixels of one colour in a block twice as wide, clamped at the edge.
FaultySources(ox, oy) ==  \* the block of a mono sensor, on a mosaic too
  {(oy * wire.soft + dy) * wire.w + ox * wire.soft + dx : dx, dy \in 0 .. wire.soft - 1}

Sources(ox, oy) ==
  LET b == wire.soft
  IN IF ~wire.color
     THEN {(oy * b + dy) * wire.w + ox * b + dx : dx, dy \in 0 .. b - 1}
     ELSE {r * wire.w + c :
             r \in {2 * b * (oy \div 2) + (oy % 2) + 2 * i : i \in 0 .. b - 1} \cap 0 .. wire.h - 1,
             c \in {2 * b * (ox \div 2) + (ox % 2) + 2 * i : i \in 0 .. b - 1} \cap 0 .. wire.w - 1}

\* One output sample, over the front of the same buffer.
BinOne ==
  /\ step = "bin" /\ wire.soft > 1 /\ at < Out
  /\ buf' = [buf EXCEPT ![at] = UNION {buf[p] : p \in Sources(at % OutW, at \div OutW)}]
  /\ at' = at + 1
  /\ UNCHANGED <<conf, aligned, step>>

Return ==
  /\ step = "bin" /\ (wire.soft <= 1 \/ at = Out)
  /\ Enter("done")
  /\ UNCHANGED <<conf, buf, aligned>>

Next == RepairFX3 \/ RepairVendor \/ RepairDefect \/ Judge \/ BinOne \/ Return

Spec == Init /\ [][Next]_vars

-----------------------------------------------------------------------------
(* What the caller gets *)

Phase(p, w) == IF wire.color THEN <<(p \div w) % 2, (p % w) % 2>> ELSE <<0, 0>>

\* The wire pixels a binned sample stands for, from the frame alone: those of
\* its colour in its part of the sensor.
Footprint(o) ==
  LET b == IF wire.color THEN 2 ELSE 1
      Part(p, w, size) == <<(p \div w) \div size, (p % w) \div size>>
  IN {p \in 0 .. N - 1 : /\ Part(p, wire.w, b * wire.soft) = Part(o, OutW, b)
                         /\ Phase(p, wire.w) = Phase(o, OutW)}

Clean(p) == Sent(p) = p /\ ~(wire.bin <= 1 /\ Flagged(p))

\* No sample returned is made of a marker, of another frame, of another colour
\* or of a pixel the map names, and one whose pixels needed no repair is made
\* of exactly the pixels it stands for.
FrameHolds ==
  step = "done" =>
    \A o \in 0 .. Out - 1 :
      /\ buf[o] # {}
      /\ \A p \in buf[o] :
           /\ p \in 0 .. N - 1
           /\ Phase(p, wire.w) = Phase(o, OutW)
           /\ wire.bin <= 1 => ~Flagged(p)
      /\ (\A p \in Footprint(o) : Clean(p)) => buf[o] = Footprint(o)

\* A frame is refused for one reason only.
RefusedForStart == step = "refused" => start > 0
=============================================================================
