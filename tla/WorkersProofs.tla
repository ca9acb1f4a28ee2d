--------------------------- MODULE WorkersProofs ---------------------------
(***************************************************************************)
(* What the capture workers guarantee at every return and at every read,   *)
(* proved for every set of profiles and any number of calls and failing    *)
(* transfers.  A worker's promises rest on transfers it has yet to make    *)
(* (the exit will stop the FX3, the last of the window's transfers will    *)
(* drop the signal), so the inductive invariant speaks of Left, the set of *)
(* the transfers still in todo, and of Final, the last of them.            *)
(***************************************************************************)
EXTENDS Workers, SequenceTheorems, TLAPS

\* A control transfer, by the bits it sets and clears.
Transfers == [set : SUBSET Bits, clr : SUBSET Bits]
\* A chain of transfers; none is empty.
Chains    == Seq(Transfers) \ {<<>>}
\* What a worker may have left to make.
Todos     == Seq(Chains)

\* The transfers of a chain.
Of(s)       == {s[i] : i \in 1 .. Len(s)}
\* The transfers of all of the chains of q.
Elements(q) == UNION {Of(q[i]) : i \in 1 .. Len(q)}
\* The transfers the worker has yet to make.
Left        == Elements(todo)
\* The very last of them.
Final(q)    == q[Len(q)][Len(q[Len(q)])]

\* Only the empty sequence has no elements.
LEMMA NoneLeft ==
  ASSUME NEW S, NEW q \in Seq(S)
  PROVE  Len(q) \in Nat /\ (Len(q) = 0 <=> q = <<>>)
OBVIOUS

\* The head and the tail of a sequence, by index.
LEMMA Uncons ==
  ASSUME NEW S, NEW q \in Seq(S), q # <<>>
  PROVE  /\ Head(q) \in S /\ Head(q) = q[1] /\ Len(q) \in Nat \ {0}
         /\ Tail(q) \in Seq(S) /\ Len(Tail(q)) = Len(q) - 1
         /\ \A i \in 1 .. Len(q) - 1 : Tail(q)[i] = q[i + 1]
BY HeadTailProperties

\* A sequence with one element put before it, by index.
LEMMA Cons ==
  ASSUME NEW S, NEW c \in S, NEW q \in Seq(S)
  PROVE  /\ <<c>> \o q \in Seq(S) /\ Len(<<c>> \o q) = Len(q) + 1 /\ Len(q) \in Nat
         /\ (<<c>> \o q)[1] = c
         /\ \A i \in 1 .. Len(q) : (<<c>> \o q)[i + 1] = q[i]
OBVIOUS

\* A chain's transfers are its head and those of its tail.
LEMMA OfTail ==
  ASSUME NEW S, NEW s \in Seq(S), s # <<>>
  PROVE  Of(s) = {Head(s)} \cup Of(Tail(s))
<1> DEFINE u == Tail(s)
<1>1. Head(s) = s[1] /\ Len(s) \in Nat \ {0} /\ Len(u) = Len(s) - 1
      /\ \A i \in 1 .. Len(s) - 1 : u[i] = s[i + 1]
  BY Uncons
<1> HIDE DEF u
<1>2. ASSUME NEW i \in 1 .. Len(s) PROVE s[i] \in {Head(s)} \cup Of(u)
  <2>1. CASE i = 1
    BY <1>1, <2>1
  <2>2. CASE i # 1
    <3>1. i - 1 \in 1 .. Len(u) /\ u[i - 1] = s[i]
      BY <1>1, <2>2
    <3> QED BY <3>1 DEF Of
  <2> QED BY <2>1, <2>2
<1>3. ASSUME NEW i \in 1 .. Len(u) PROVE u[i] \in Of(s)
  <2>1. i + 1 \in 1 .. Len(s) /\ u[i] = s[i + 1]
    BY <1>1
  <2> QED BY <2>1 DEF Of
<1>4. Head(s) \in Of(s)
  BY <1>1 DEF Of
<1>5. Of(s) \subseteq {Head(s)} \cup Of(u)
  BY <1>2 DEF Of
<1>6. Of(u) \subseteq Of(s)
  BY <1>3 DEF Of
<1> QED BY <1>4, <1>5, <1>6 DEF u

\* The transfers of some chains are those of the first and those of the others.
LEMMA ElementsTail ==
  ASSUME NEW q \in Seq(Chains), q # <<>>
  PROVE  Elements(q) = Of(Head(q)) \cup Elements(Tail(q))
<1> DEFINE u == Tail(q)
<1>1. Head(q) = q[1] /\ Len(q) \in Nat \ {0} /\ Len(u) = Len(q) - 1
      /\ \A i \in 1 .. Len(q) - 1 : u[i] = q[i + 1]
  BY Uncons
<1> HIDE DEF u
<1>2. ASSUME NEW i \in 1 .. Len(q) PROVE Of(q[i]) \subseteq Of(Head(q)) \cup Elements(u)
  <2>1. CASE i = 1
    BY <1>1, <2>1
  <2>2. CASE i # 1
    <3>1. i - 1 \in 1 .. Len(u) /\ u[i - 1] = q[i]
      BY <1>1, <2>2
    <3> QED BY <3>1 DEF Elements
  <2> QED BY <2>1, <2>2
<1>3. ASSUME NEW i \in 1 .. Len(u) PROVE Of(u[i]) \subseteq Elements(q)
  <2>1. i + 1 \in 1 .. Len(q) /\ u[i] = q[i + 1]
    BY <1>1
  <2> QED BY <2>1 DEF Elements
<1>4. Of(Head(q)) \subseteq Elements(q)
  BY <1>1 DEF Elements
<1>5. Elements(q) \subseteq Of(Head(q)) \cup Elements(u)
  BY <1>2 DEF Elements
<1>6. Elements(u) \subseteq Elements(q)
  BY <1>3 DEF Elements
<1> QED BY <1>4, <1>5, <1>6 DEF u

\* The same, of a chain put before others.
LEMMA ElementsCons ==
  ASSUME NEW c \in Chains, NEW q \in Seq(Chains)
  PROVE  Elements(<<c>> \o q) = Of(c) \cup Elements(q)
<1>1. <<c>> \o q \in Seq(Chains) /\ <<c>> \o q # <<>>
  BY Cons
<1>2. Head(<<c>> \o q) = c /\ Tail(<<c>> \o q) = q
  OBVIOUS
<1> QED BY <1>1, <1>2, ElementsTail

\* A chain of one transfer.
LEMMA OfSingle ==
  ASSUME NEW S, NEW s \in Seq(S), Len(s) = 1
  PROVE  Of(s) = {Head(s)} /\ s[Len(s)] = Head(s)
<1>1. Head(s) = s[1]
  BY Uncons, NoneLeft
<1> QED BY <1>1 DEF Of

\* The last transfer is that of the last chain.
LEMMA FinalCons ==
  ASSUME NEW c \in Chains, NEW u \in Seq(Chains)
  PROVE  Final(<<c>> \o u) = IF u = <<>> THEN c[Len(c)] ELSE Final(u)
<1>1. Len(<<c>> \o u) = Len(u) + 1 /\ (<<c>> \o u)[1] = c
      /\ \A i \in 1 .. Len(u) : (<<c>> \o u)[i + 1] = u[i]
  BY Cons
<1>2. Len(u) \in Nat /\ (Len(u) = 0 <=> u = <<>>)
  BY NoneLeft
<1>3. CASE u = <<>>
  BY <1>1, <1>2, <1>3 DEF Final
<1>4. CASE u # <<>>
  <2>1. Len(u) \in 1 .. Len(u)
    BY <1>2, <1>4
  <2>2. (<<c>> \o u)[Len(u) + 1] = u[Len(u)]
    BY <1>1, <2>1
  <2> QED BY <1>1, <1>4, <2>2 DEF Final
<1> QED BY <1>3, <1>4

\* Dropping the first of several transfers leaves the last one the last.
LEMMA LastTail ==
  ASSUME NEW S, NEW s \in Seq(S), s # <<>>, Len(s) # 1
  PROVE  Tail(s) # <<>> /\ Tail(s)[Len(Tail(s))] = s[Len(s)]
<1>1. Len(s) \in Nat \ {0} /\ Tail(s) \in Seq(S) /\ Len(Tail(s)) = Len(s) - 1
      /\ \A i \in 1 .. Len(s) - 1 : Tail(s)[i] = s[i + 1]
  BY Uncons
<1>2. Len(s) - 1 \in 1 .. Len(s) - 1 /\ Len(s) - 1 + 1 = Len(s)
  BY <1>1
<1>3. Tail(s)[Len(s) - 1] = s[Len(s)]
  BY <1>1, <1>2
<1>4. Len(Tail(s)) # 0
  BY <1>1
<1> QED BY <1>1, <1>3, <1>4, NoneLeft

\* What is left of the chains q once the transfer at their head is made.
Rest(q) == IF Len(Head(q)) = 1 THEN Tail(q) ELSE <<Tail(Head(q))>> \o Tail(q)

\* One transfer made, as a sequence of chains: the first is one transfer shorter,
\* or gone.
LEMMA Pop ==
  ASSUME NEW q \in Seq(Chains), q # <<>>
  PROVE  /\ Head(Head(q)) \in Transfers
         /\ Rest(q) \in Seq(Chains)
         /\ Elements(q) = {Head(Head(q))} \cup Elements(Rest(q))
         /\ Rest(q) = <<>> => Final(q) = Head(Head(q))
         /\ Rest(q) # <<>> => Final(Rest(q)) = Final(q)
<1>1. PICK c, u : c = Head(q) /\ u = Tail(q)
  OBVIOUS
<1>2. c \in Chains /\ u \in Seq(Chains)
  BY <1>1, Uncons
<1>3. q = <<c>> \o u
  BY <1>1
<1>4. c \in Seq(Transfers) /\ c # <<>> /\ Head(c) \in Transfers /\ Tail(c) \in Seq(Transfers)
  BY <1>2, Uncons DEF Chains
<1>5. Elements(q) = Of(c) \cup Elements(u) /\ Final(q) = IF u = <<>> THEN c[Len(c)] ELSE Final(u)
  BY <1>2, <1>3, ElementsCons, FinalCons
<1>6. Of(c) = {Head(c)} \cup Of(Tail(c))
  BY <1>4, OfTail
<1>7. CASE Len(c) = 1
  <2>1. Rest(q) = u
    BY <1>1, <1>7 DEF Rest
  <2>2. Of(c) = {Head(c)} /\ c[Len(c)] = Head(c)
    BY <1>4, <1>7, OfSingle
  <2> QED BY <1>1, <1>2, <1>4, <1>5, <2>1, <2>2
<1>8. CASE Len(c) # 1
  <2>1. Rest(q) = <<Tail(c)>> \o u
    BY <1>1, <1>8 DEF Rest
  <2>2. Tail(c) \in Chains /\ Tail(c)[Len(Tail(c))] = c[Len(c)]
    BY <1>4, <1>8, LastTail DEF Chains
  <2>3. Rest(q) \in Seq(Chains) /\ Rest(q) # <<>>
    BY <1>2, <2>1, <2>2, Cons, NoneLeft
  <2>4. Elements(Rest(q)) = Of(Tail(c)) \cup Elements(u)
    BY <1>2, <2>1, <2>2, ElementsCons
  <2>5. Final(Rest(q)) = Final(q)
    BY <1>2, <1>5, <2>1, <2>2, FinalCons
  <2> QED BY <1>1, <1>4, <1>5, <1>6, <2>3, <2>4, <2>5
<1> QED BY <1>7, <1>8

\* Chain loads what it is given, and nothing when there is nothing.
LEMMA One ==
  ASSUME NEW s \in Seq(Transfers)
  PROVE  /\ Chain(s) \in Seq(Chains)
         /\ Elements(Chain(s)) = Of(s)
         /\ s # <<>> => Chain(s) # <<>> /\ Final(Chain(s)) = s[Len(s)]
<1>1. CASE s = <<>>
  BY <1>1 DEF Chain, Elements, Of
<1>2. CASE s # <<>>
  <2>1. Chain(s) = <<s>> /\ s \in Chains
    BY <1>2 DEF Chain, Chains
  <2>2. Elements(<<s>>) = Of(s)
    BY DEF Elements
  <2> QED BY <1>2, <2>1, <2>2 DEF Final
<1> QED BY <1>1, <1>2

-----------------------------------------------------------------------------
(* The profiles *)

\* This band's window is opened by the trigger signal.
Windowed == trig \/ die # "imx585poa"

\* A profile's transfers are transfers.
Typed(w) == /\ w.arm \in Seq(Transfers) /\ w.rearm \in Seq(Transfers)
            /\ w.open \in Seq(Transfers) /\ w.close \in Seq(Transfers)
            /\ w.halt \in Seq(Chains) /\ w.window \in BOOLEAN /\ w.covers \in BOOLEAN

\* The last transfer of s drops the signal.
Lasts(s) == s # <<>> /\ "sig" \in s[Len(s)].clr /\ "sig" \notin s[Len(s)].set

\* Only the window's own transfers touch the trigger signal: opening it raises the
\* signal and closing it ends with the signal down.
Gates(w) ==
  /\ \A t \in Of(w.arm) \cup Of(w.rearm) : "sig" \notin t.set /\ "sig" \notin t.clr
  /\ \A t \in Of(w.open) : "sig" \notin t.clr
  /\ Windowed => \E t \in Of(w.open) : "sig" \in t.set
  /\ Windowed => Lasts(w.close)
  /\ ~Windowed => w.open = <<>> /\ w.close = <<>>
  /\ trig => w.window

\* The exit stops the FX3, the readout and (but for the IMX178) the sensor, and
\* raises nothing.
Halts(w) ==
  /\ \A t \in Elements(w.halt) : /\ "sig" \notin t.set /\ "fx3" \notin t.set
                                 /\ "on" \notin t.set /\ "stop" \notin t.clr
  /\ \E t \in Elements(w.halt) : "fx3" \in t.clr
  /\ \E t \in Elements(w.halt) : "stop" \in t.set
  /\ die # "imx178" => \E t \in Elements(w.halt) : "on" \in t.clr

\* In the trigger band of the IMX462 no transfer clears WaitMode.
KeepsWait(w) == die = "imx462" /\ trig =>
  \A t \in Of(w.arm) \cup Of(w.rearm) \cup Of(w.open) \cup Of(w.close) \cup Elements(w.halt) :
    "wait" \notin t.clr

\* The transfers of two chains.
LEMMA Two == ASSUME NEW a, NEW b PROVE Elements(<<a, b>>) = Of(a) \cup Of(b)
<1> DEFINE q == <<a, b>>
<1>1. Len(q) = 2 /\ q[1] = a /\ q[2] = b
  OBVIOUS
<1> HIDE DEF q
<1>2. Elements(q) = Of(q[1]) \cup Of(q[2])
  BY <1>1 DEF Elements
<1> QED BY <1>1, <1>2 DEF q

\* What the proof needs to know of a profile.
Sound(w) == /\ Typed(w) /\ Gates(w) /\ Halts(w) /\ KeepsWait(w)
            /\ w.ticks => die \in {"imx455", "imx571", "imx585zwo"}

\* Each makes one chain of each transfer.
LEMMA EachHalts ==
  ASSUME NEW s \in Seq(Transfers)
  PROVE  Each(s) \in Seq(Chains) /\ Elements(Each(s)) = Of(s)
<1>1. Len(s) \in Nat /\ \A i \in 1 .. Len(s) : s[i] \in Transfers
  OBVIOUS
<1>2. \A i \in 1 .. Len(s) : <<s[i]>> \in Chains /\ Of(<<s[i]>>) = {s[i]}
  BY <1>1 DEF Chains, Of
<1>3. Each(s) \in Seq(Chains) /\ Len(Each(s)) = Len(s)
      /\ \A i \in 1 .. Len(s) : Each(s)[i] = <<s[i]>>
  BY <1>1, <1>2 DEF Each
<1>4. Elements(Each(s)) = UNION {{s[i]} : i \in 1 .. Len(s)}
  BY <1>2, <1>3 DEF Elements
<1> QED BY <1>3, <1>4 DEF Of

\* The IMX174's profile is sound.
LEMMA OfImx174 == ASSUME trig \in BOOLEAN, usb3 \in BOOLEAN, die = "imx174" PROVE Sound(Imx174)
<1> USE DEF Imx174, Put, Clr, Nothing, FpgaStop, FpgaStart, SigOn, SigOff,
           Fx3Stop, Fx3Start, Sleeping, Running, Ctl06
<1>1. <<Nothing, Sleeping, FpgaStop, Fx3Stop>> \in Seq(Transfers)
      /\ Of(<<Nothing, Sleeping, FpgaStop, Fx3Stop>>) = {Nothing, Sleeping, FpgaStop, Fx3Stop}
  BY SMTT(30) DEF Transfers, Bits, Of
<1>2. Imx174.halt \in Seq(Chains) /\ Elements(Imx174.halt) = {Nothing, Sleeping, FpgaStop, Fx3Stop}
  BY <1>1, EachHalts
<1>3. Typed(Imx174)
  BY <1>2 DEF Typed, Transfers, Bits
<1>4. Gates(Imx174)
  BY DEF Gates, Of, Windowed, Lasts
<1>5. Halts(Imx174)
  BY <1>2, SMTT(30) DEF Halts
<1>6. Imx174.ticks => die \in {"imx455", "imx571", "imx585zwo"}
  OBVIOUS
<1>7. KeepsWait(Imx174)
  BY DEF KeepsWait
<1> QED BY <1>3, <1>4, <1>5, <1>6, <1>7 DEF Sound

\* The IMX178's profile is sound.
LEMMA OfImx178 == ASSUME trig \in BOOLEAN, usb3 \in BOOLEAN, die = "imx178" PROVE Sound(Imx178)
<1> USE DEF Imx178, Put, Clr, Nothing, FpgaStop, FpgaStart, SigOn, SigOff,
           Fx3Stop, Fx3Start, Sleeping, Running, Ctl06
<1>1. <<FpgaStop, Fx3Stop>> \in Seq(Transfers)
      /\ Of(<<FpgaStop, Fx3Stop>>) = {FpgaStop, Fx3Stop}
  BY DEF Transfers, Bits, Of
<1>2. Imx178.halt \in Seq(Chains) /\ Elements(Imx178.halt) = {FpgaStop, Fx3Stop}
  BY <1>1, EachHalts
<1>3. Typed(Imx178)
  BY <1>2 DEF Typed, Transfers, Bits
<1>4. Gates(Imx178)
  BY DEF Gates, Of, Windowed, Lasts
<1>5. Halts(Imx178)
  BY <1>2 DEF Halts
<1>6. Imx178.ticks => die \in {"imx455", "imx571", "imx585zwo"}
  OBVIOUS
<1>7. KeepsWait(Imx178)
  BY DEF KeepsWait
<1> QED BY <1>3, <1>4, <1>5, <1>6, <1>7 DEF Sound

\* The IMX290's profile is sound.
LEMMA OfImx290 == ASSUME trig \in BOOLEAN, usb3 \in BOOLEAN, die = "imx290" PROVE Sound(Imx290)
<1> USE DEF Imx290, Put, Clr, Nothing, FpgaStop, FpgaStart, SigOn, SigOff,
           Fx3Stop, Fx3Start, Sleeping, Running, Ctl06
<1>1. <<FpgaStop, Sleeping, Fx3Stop>> \in Seq(Transfers)
      /\ Of(<<FpgaStop, Sleeping, Fx3Stop>>) = {FpgaStop, Sleeping, Fx3Stop}
  BY DEF Transfers, Bits, Of
<1>2. Imx290.halt \in Seq(Chains) /\ Elements(Imx290.halt) = {FpgaStop, Sleeping, Fx3Stop}
  BY <1>1, EachHalts
<1>3. Typed(Imx290)
  <2>1. CASE trig
    BY <1>2, <2>1 DEF Typed, Transfers, Bits
  <2>2. CASE ~trig
    BY <1>2, <2>2 DEF Typed, Transfers, Bits
  <2> QED BY <2>1, <2>2
<1>4. Gates(Imx290)
  BY DEF Gates, Of, Windowed, Lasts
<1>5. Halts(Imx290)
  BY <1>2 DEF Halts
<1>6. Imx290.ticks => die \in {"imx455", "imx571", "imx585zwo"}
  OBVIOUS
<1>7. KeepsWait(Imx290)
  BY DEF KeepsWait
<1> QED BY <1>3, <1>4, <1>5, <1>6, <1>7 DEF Sound

\* The IMX462's profile is sound.
LEMMA OfImx462 == ASSUME trig \in BOOLEAN, usb3 \in BOOLEAN, die = "imx462" PROVE Sound(Imx462)
<1> USE DEF Imx462, Put, Clr, Nothing, FpgaStop, FpgaStart, SigOn, SigOff,
           Fx3Stop, Fx3Start, Sleeping, Running, Ctl06
<1>1. <<FpgaStop, Sleeping, Fx3Stop>> \in Seq(Transfers)
      /\ Of(<<FpgaStop, Sleeping, Fx3Stop>>) = {FpgaStop, Sleeping, Fx3Stop}
  BY DEF Transfers, Bits, Of
<1>2. Imx462.halt \in Seq(Chains) /\ Elements(Imx462.halt) = {FpgaStop, Sleeping, Fx3Stop}
  BY <1>1, EachHalts
<1>3. Typed(Imx462)
  BY <1>2 DEF Typed, Transfers, Bits
<1>4. Gates(Imx462)
  BY DEF Gates, Of, Windowed, Lasts
<1>5. Halts(Imx462)
  BY <1>2 DEF Halts
<1>6. Imx462.ticks => die \in {"imx455", "imx571", "imx585zwo"}
  OBVIOUS
<1>7. KeepsWait(Imx462)
  BY <1>2 DEF KeepsWait, Of
<1> QED BY <1>3, <1>4, <1>5, <1>6, <1>7 DEF Sound

\* The IMX455's profile is sound.
LEMMA OfImx455 == ASSUME trig \in BOOLEAN, usb3 \in BOOLEAN, die = "imx455" PROVE Sound(Imx455)
<1> USE DEF Imx455, ArmDDR, Put, Clr, Nothing, FpgaStop, FpgaStart, SigOn, SigOff,
           Fx3Stop, Fx3Start, Sleeping, Running, Ctl06
<1>1. <<FpgaStop, Sleeping, Nothing, Fx3Stop>> \in Seq(Transfers)
      /\ Of(<<FpgaStop, Sleeping, Nothing, Fx3Stop>>) = {FpgaStop, Sleeping, Nothing, Fx3Stop}
  BY DEF Transfers, Bits, Of
<1>2. Imx455.halt \in Seq(Chains) /\ Elements(Imx455.halt) = {FpgaStop, Sleeping, Nothing, Fx3Stop}
  BY <1>1, EachHalts
<1>3. Typed(Imx455)
  BY <1>2 DEF Typed, Transfers, Bits
<1>4. Gates(Imx455)
  BY DEF Gates, Of, Windowed, Lasts
<1>5. Halts(Imx455)
  BY <1>2, SMTT(30) DEF Halts
<1>6. Imx455.ticks => die \in {"imx455", "imx571", "imx585zwo"}
  OBVIOUS
<1>7. KeepsWait(Imx455)
  BY DEF KeepsWait
<1> QED BY <1>3, <1>4, <1>5, <1>6, <1>7 DEF Sound

\* The IMX571's profile is sound.
LEMMA OfImx571 == ASSUME trig \in BOOLEAN, usb3 \in BOOLEAN, die = "imx571" PROVE Sound(Imx571)
<1> USE DEF Imx571, Arm571, ArmDDR, Put, Clr, Nothing, FpgaStop, FpgaStart, SigOn, SigOff,
           Fx3Stop, Fx3Start, Sleeping, Running, Ctl06
<1>1. Imx571.halt \in Seq(Chains)
  BY DEF Chains, Transfers, Bits
<1>2. Imx571.halt \in Seq(Chains) /\ Elements(Imx571.halt) = {FpgaStop, Sleeping, Nothing, Fx3Stop}
  <2>1. Of(<<FpgaStop, Sleeping, Nothing>>) = {FpgaStop, Sleeping, Nothing} /\ Of(<<Fx3Stop>>) = {Fx3Stop}
    BY DEF Of
  <2>2. Elements(Imx571.halt) = Of(<<FpgaStop, Sleeping, Nothing>>) \cup Of(<<Fx3Stop>>)
    BY Two
  <2> QED BY <1>1, <2>1, <2>2
<1>3. Typed(Imx571)
  BY <1>2 DEF Typed, Transfers, Bits
<1>4. Gates(Imx571)
  BY DEF Gates, Of, Windowed, Lasts
<1>5. Halts(Imx571)
  BY <1>2 DEF Halts
<1>6. Imx571.ticks => die \in {"imx455", "imx571", "imx585zwo"}
  OBVIOUS
<1>7. KeepsWait(Imx571)
  BY DEF KeepsWait
<1> QED BY <1>3, <1>4, <1>5, <1>6, <1>7 DEF Sound

\* The IMX585 (ZWO)'s profile is sound.
LEMMA OfImx585ZWO == ASSUME trig \in BOOLEAN, usb3 \in BOOLEAN, die = "imx585zwo" PROVE Sound(Imx585ZWO)
<1> USE DEF Imx585ZWO, Arm585, Halt585, Put, Clr, Nothing, FpgaStop, FpgaStart, SigOn, SigOff,
           Fx3Stop, Fx3Start, Sleeping, Running, Ctl06
<1>1. <<FpgaStop, Sleeping, Fx3Stop>> \in Seq(Transfers)
      /\ Of(<<FpgaStop, Sleeping, Fx3Stop>>) = {FpgaStop, Sleeping, Fx3Stop}
  BY DEF Transfers, Bits, Of
<1>2. Imx585ZWO.halt \in Seq(Chains) /\ Elements(Imx585ZWO.halt) = {FpgaStop, Sleeping, Fx3Stop}
  BY <1>1, EachHalts
<1>3. Typed(Imx585ZWO)
  BY <1>2 DEF Typed, Transfers, Bits
<1>4. Gates(Imx585ZWO)
  BY DEF Gates, Of, Windowed, Lasts
<1>5. Halts(Imx585ZWO)
  BY <1>2 DEF Halts
<1>6. Imx585ZWO.ticks => die \in {"imx455", "imx571", "imx585zwo"}
  OBVIOUS
<1>7. KeepsWait(Imx585ZWO)
  BY DEF KeepsWait
<1> QED BY <1>3, <1>4, <1>5, <1>6, <1>7 DEF Sound

\* The IMX585 (PlayerOne)'s profile is sound.
LEMMA OfImx585POA == ASSUME trig \in BOOLEAN, usb3 \in BOOLEAN, die = "imx585poa" PROVE Sound(Imx585POA)
<1> USE DEF Imx585POA, Arm585, Halt585, Put, Clr, Nothing, FpgaStop, FpgaStart, SigOn, SigOff,
           Fx3Stop, Fx3Start, Sleeping, Running, Ctl06
<1>1. <<FpgaStop, Sleeping, Fx3Stop>> \in Seq(Transfers)
      /\ Of(<<FpgaStop, Sleeping, Fx3Stop>>) = {FpgaStop, Sleeping, Fx3Stop}
  BY DEF Transfers, Bits, Of
<1>2. Imx585POA.halt \in Seq(Chains) /\ Elements(Imx585POA.halt) = {FpgaStop, Sleeping, Fx3Stop}
  BY <1>1, EachHalts
<1>3. Typed(Imx585POA)
  <2>1. CASE trig
    BY <1>2, <2>1 DEF Typed, Transfers, Bits
  <2>2. CASE ~trig
    BY <1>2, <2>2 DEF Typed, Transfers, Bits
  <2> QED BY <2>1, <2>2
<1>4. Gates(Imx585POA)
  BY DEF Gates, Of, Windowed, Lasts
<1>5. Halts(Imx585POA)
  BY <1>2 DEF Halts
<1>6. Imx585POA.ticks => die \in {"imx455", "imx571", "imx585zwo"}
  OBVIOUS
<1>7. KeepsWait(Imx585POA)
  BY DEF KeepsWait
<1> QED BY <1>3, <1>4, <1>5, <1>6, <1>7 DEF Sound

\* Every profile is sound, in either band and on either link.
LEMMA WorkerSound ==
  ASSUME die \in AllDies, trig \in BOOLEAN, usb3 \in BOOLEAN
  PROVE  Sound(Worker)
BY OfImx174, OfImx178, OfImx290, OfImx462, OfImx455, OfImx571, OfImx585ZWO, OfImx585POA
   DEF Worker, AllDies

-----------------------------------------------------------------------------
(* The inductive invariant *)

\* What a call is about.
HeldTypes == /\ die \in AllDies /\ usb3 \in BOOLEAN /\ trig \in BOOLEAN
             /\ first \in BOOLEAN /\ aborted \in BOOLEAN

\* The worker's place, and where it has nothing loaded.
FlowTypes ==
  /\ pc \in {"idle", "begin", "arm", "open", "hold", "rearm", "close", "read", "reload",
             "join", "drop", "exit"}
  /\ pc \in {"idle", "begin", "hold", "read", "join"} => todo = <<>>

\* The device and what is on its bus.
BusTypes ==
  /\ dev \subseteq Bits
  /\ ticker \in {"off", "waiting", "pulsing"}
  /\ win \in {"none", "open", "stale", "released"}
  /\ lost \in BOOLEAN

\* The counters of the read ladders; the worker leaves with the third retry.
LadderTypes ==
  /\ attempt \in 0 .. 12 /\ zeros \in 0 .. 3 /\ reloads \in 0 .. 3 /\ retries \in 0 .. 3
  /\ pc \notin {"idle", "exit"} => retries <= 2

\* The bounds and the history.
HistTypes ==
  /\ calls \in 0 .. MaxCalls /\ faults \in 0 .. MaxFaults
  /\ res \in {"none", "ok", "short", "aborted", "error"}
  /\ exitFailed \in BOOLEAN /\ stalls \in 0 .. 2

\* The types of all of the variables but todo.
Types == HeldTypes /\ FlowTypes /\ BusTypes /\ LadderTypes /\ HistTypes

\* The type invariant: TypeOK, and no chain left is empty.
TypeInv == Types /\ todo \in Todos

\* t drops the trigger signal.
Lowers(t) == "sig" \in t.clr /\ "sig" \notin t.set

\* Where the trigger signal may be up, and that what is left to make drops it on
\* every way out of an open window.
SigInv ==
  /\ lost => faults > 0
  /\ "sig" \in dev => lost \/ pc \in {"open", "hold", "rearm", "close", "drop"}
  /\ pc \in {"arm", "rearm", "reload"} => \A t \in Left : "sig" \notin t.set /\ "sig" \notin t.clr
  /\ pc = "exit" => \A t \in Left : "sig" \notin t.set
  /\ pc = "open" => \A t \in Left : "sig" \notin t.clr
  /\ pc = "open" /\ ~Windowed => todo = <<>>
  /\ pc \in {"open", "hold", "rearm"} /\ "sig" \in dev => lost \/ Windowed
  /\ pc \in {"close", "drop"} => IF todo = <<>> THEN "sig" \in dev => lost ELSE Lowers(Final(todo))

\* The window's history at each step of the worker: read and reload come after an
\* edge and a release.
GateInv ==
  /\ win = "stale" => faults > 0
  /\ pc = "arm" => win = "none"
  /\ pc = "open" /\ win = "none" /\ "sig" \in dev => lost
  /\ pc = "open" => win \in {"none", "open", "stale"}
  /\ pc = "open" /\ Windowed /\ win = "none" => \E t \in Left : "sig" \in t.set
  /\ pc \in {"hold", "rearm"} /\ Windowed => win \in {"open", "stale"}
  /\ pc = "close" /\ Windowed => win \in {"open", "stale", "released"}
  /\ pc = "close" /\ Windowed /\ todo = <<>> => win # "open"
  /\ pc \in {"read", "reload"} /\ trig => win \in {"released", "stale"}

\* WaitMode, set by SetExposure, stays set through a call of the IMX462's trigger band.
WaitInv ==
  trig /\ die = "imx462" /\ pc # "idle" => "wait" \in dev /\ \A t \in Left : "wait" \notin t.clr

\* On its way out, what the worker has left to make stops whatever still runs.
RestInv ==
  /\ HaltedOnReturn
  /\ pc = "exit" /\ ~exitFailed =>
       /\ \A t \in Left : "fx3" \notin t.set /\ "on" \notin t.set /\ "stop" \notin t.clr
       /\ "fx3" \in dev => \E t \in Left : "fx3" \in t.clr
       /\ "stop" \notin dev => \E t \in Left : "stop" \in t.set
       /\ "on" \in dev /\ die # "imx178" => \E t \in Left : "on" \in t.clr

\* The ticker runs in the read and until it is joined, on the DDR profiles only.
TickInv == ticker # "off" => pc \in {"read", "join"} /\ die \in {"imx455", "imx571", "imx585zwo"}

\* The profile depends on the die, the link and the band alone.
LEMMA WorkerKept ==
  ASSUME UNCHANGED <<devVars, trig>>
  PROVE  Worker' = Worker /\ Windowed' = Windowed
BY DEF devVars, Windowed, Worker, Imx174, Imx178, Imx290, Imx462, Imx455, Imx571, Imx585ZWO, Imx585POA

\* What a worker loads is typed, and Left is what it loaded.
LEMMA Loaded ==
  ASSUME TypeInv
  PROVE  /\ Sound(Worker) /\ Worker.halt \in Todos
         /\ \A s \in {Worker.arm, Worker.rearm, Worker.open, Worker.close} :
              /\ s \in Seq(Transfers)
              /\ Chain(s) \in Todos /\ Elements(Chain(s)) = Of(s)
              /\ s # <<>> => Chain(s) # <<>> /\ Final(Chain(s)) = s[Len(s)]
              /\ s = <<>> => Chain(s) = <<>>
<1>1. Sound(Worker)
  BY WorkerSound DEF TypeInv, Types, HeldTypes, FlowTypes
<1>2. Typed(Worker)
  BY <1>1 DEF Sound
<1>3. \A s : s = <<>> => Chain(s) = <<>>
  BY DEF Chain
<1> QED BY <1>1, <1>2, <1>3, One DEF Typed, Todos

\* Nothing left.
LEMMA Empty == /\ <<>> \in Todos /\ Elements(<<>>) = {}
BY DEF Elements, Todos

\* A transfer that succeeds, by what it does and what is left after it.
LEMMA Transferred ==
  ASSUME TypeInv, Transfer
  PROVE  \E t \in Transfers :
           /\ dev' = (dev \ t.clr) \cup t.set
           /\ win' = WindowAfter(t)
           /\ Left = {t} \cup Left'
           /\ todo' = <<>> => Final(todo) = t
           /\ todo' # <<>> => Final(todo') = Final(todo)
           /\ todo' \in Todos
<1>1. todo \in Todos /\ todo # <<>> /\ todo' = Rest(todo)
  BY DEF TypeInv, Transfer, Rest
<1> DEFINE t == Head(Head(todo))
<1>2. dev' = (dev \ t.clr) \cup t.set /\ win' = WindowAfter(t)
  BY DEF Transfer, Effect
<1> HIDE DEF t
<1>3. /\ t \in Transfers /\ Elements(todo) = {t} \cup Elements(Rest(todo)) /\ Rest(todo) \in Todos
      /\ Rest(todo) = <<>> => Final(todo) = t
      /\ Rest(todo) # <<>> => Final(Rest(todo)) = Final(todo)
  BY <1>1, Pop DEF t, Todos
<1> QED BY <1>1, <1>2, <1>3 DEF Left

\* A transfer that fails is one of those left; the best-effort exits go on with the
\* next chain.
LEMMA Failed ==
  ASSUME TypeInv, TransferFails
  PROVE  /\ todo # <<>> /\ pc \notin {"idle", "begin", "hold", "read", "join"}
         /\ \E t \in Transfers : t \in Left /\ dev' \in {dev, (dev \ t.clr) \cup t.set}
         /\ Tail(todo) \in Todos /\ Elements(Tail(todo)) \subseteq Left
         /\ Tail(todo) # <<>> => Final(Tail(todo)) = Final(todo)
<1>1. todo \in Todos /\ todo # <<>>
  BY DEF TypeInv, TransferFails
<1> DEFINE t == Head(Head(todo))
<1>2. dev' \in {dev, (dev \ t.clr) \cup t.set}
  BY DEF TransferFails, Effect
<1> HIDE DEF t
<1>3. t \in Transfers /\ t \in Left
  BY <1>1, Pop DEF t, Left, Todos
<1>4. Tail(todo) \in Todos /\ Elements(Tail(todo)) \subseteq Left
  BY <1>1, Uncons, ElementsTail DEF Left, Todos
<1>5. Tail(todo) # <<>> => Final(Tail(todo)) = Final(todo)
  <2>1. PICK c, u : c = Head(todo) /\ u = Tail(todo)
    OBVIOUS
  <2>2. c \in Chains /\ u \in Seq(Chains) /\ todo = <<c>> \o u
    BY <1>1, <2>1, Uncons DEF Todos
  <2> QED BY <2>1, <2>2, FinalCons
<1> QED BY <1>1, <1>2, <1>3, <1>4, <1>5 DEF TypeInv, Types, HeldTypes, FlowTypes

\* How a read can end a call.
Results == {"ok", "short", "aborted", "error"}

\* A read leads to the exit, or on with nothing loaded, or to a reload's pulse.
GoesOn ==
  \/ \E r \in Results : Leave(r) /\ dev' = dev
  \/ /\ pc' \in {"join", "read", "begin"} /\ todo' = <<>>
     /\ dev' \in {dev, dev \ {"fx3"}} /\ exitFailed' = exitFailed /\ res' \in Results \cup {res}
  \/ /\ pc' = "reload" /\ todo' = <<<<Nothing>>>>
     /\ dev' = dev /\ exitFailed' = exitFailed /\ res' = res

\* The ladders' counters keep within their bounds.
Counts ==
  /\ attempt' \in 0 .. 12 /\ zeros' \in 0 .. 3 /\ reloads' \in 0 .. 3 /\ retries' \in 0 .. 3
  /\ pc' \notin {"idle", "exit"} => retries' <= 2
  /\ stalls' \in 0 .. 2

\* A read ends a call in one of four ways.
LEMMA ResultOf == ASSUME NEW o PROVE Result(o) \in Results
BY DEF Result, Results

\* The IMX290's ladder.
LEMMA Ladder290Goes ==
  ASSUME TypeInv, pc = "read", NEW o \in Outcomes, Ladder290(o)
  PROVE  GoesOn /\ Counts
<1>1. /\ todo = <<>> /\ retries \in 0 .. 2 /\ attempt \in 0 .. 12 /\ zeros \in 0 .. 3 /\ reloads \in 0 .. 3
      /\ stalls \in 0 .. 2
  BY DEF TypeInv, Types, FlowTypes, LadderTypes, HistTypes
<1>2. Result(o) \in Results /\ "short" \in Results
  BY ResultOf DEF Results
<1>l. ASSUME NEW r, Leave(r) PROVE pc' \in {"idle", "exit"}
  BY <1>l DEF Leave
<1>3. CASE o \in {"full", "error"} \/ aborted
  <2>1. Leave(Result(o)) /\ UNCHANGED <<ladderVars, dev, stalls>>
    BY <1>3 DEF Ladder290
  <2> QED BY <1>1, <1>2, <2>1, <1>l DEF GoesOn, Counts, ladderVars
<1>4. CASE ~(o \in {"full", "error"} \/ aborted) /\ attempt >= 12
  <2>1. Leave("short") /\ UNCHANGED <<ladderVars, dev, stalls>>
    BY <1>4 DEF Ladder290
  <2> QED BY <1>1, <1>2, <2>1, <1>l DEF GoesOn, Counts, ladderVars
<1>5. CASE ~(o \in {"full", "error"} \/ aborted) /\ ~(attempt >= 12)
  <2>1. NoteStall /\ attempt' = attempt + 1
    BY <1>5 DEF Ladder290
  <2>2. stalls' \in 0 .. 2 /\ attempt' \in 0 .. 12
    BY <1>1, <1>5, <2>1 DEF NoteStall
  <2>3. CASE o = "zero"
    <3>1. /\ UNCHANGED <<retries, exitFailed, res>>
          /\ IF zeros + 1 < 4 THEN zeros' = zeros + 1 /\ Again /\ UNCHANGED reloads
             ELSE zeros' = 0 /\ ResetAndRearm /\ FreshWindow
      BY <1>5, <2>3 DEF Ladder290
    <3>2. zeros' \in 0 .. 3 /\ reloads' \in 0 .. 3
      BY <1>1, <3>1 DEF FreshWindow
    <3>3. Counts
      BY <1>1, <2>2, <3>1, <3>2 DEF Counts
    <3>4. pc' \in {"read", "begin"} /\ todo' = todo /\ dev' \in {dev, dev \ {"fx3"}}
      BY <3>1 DEF Again, ResetAndRearm
    <3> QED BY <1>1, <3>1, <3>3, <3>4 DEF GoesOn
  <2>4. CASE o # "zero" /\ trig /\ reloads < 3 /\ Reload /\ UNCHANGED <<retries, exitFailed, res>> /\ zeros' = 0
    <3>1. Counts
      BY <1>1, <2>2, <2>4 DEF Counts, Reload
    <3> QED BY <2>4, <3>1 DEF GoesOn, Reload
  <2>5. CASE /\ retries' = retries + 1 /\ UNCHANGED <<reloads, dev>> /\ zeros' = 0
             /\ IF retries' > 2 THEN Leave("short")
                ELSE pc' = "read" /\ UNCHANGED <<todo, exitFailed, res>>
    <3>1. retries' \in 0 .. 3 /\ (pc' \notin {"idle", "exit"} => retries' <= 2)
      BY <1>1, <2>5, <1>l
    <3>2. Counts
      BY <1>1, <2>2, <2>5, <3>1 DEF Counts
    <3> QED BY <1>1, <1>2, <2>5, <3>2 DEF GoesOn
  <2> QED BY <1>5, <2>3, <2>4, <2>5 DEF Ladder290
<1> QED BY <1>3, <1>4, <1>5

\* The IMX462's ladder.
LEMMA Ladder462Goes ==
  ASSUME TypeInv, pc = "read", NEW o \in Outcomes, Ladder462(o)
  PROVE  GoesOn /\ Counts
<1>1. /\ todo = <<>> /\ retries \in 0 .. 2 /\ attempt \in 0 .. 12 /\ zeros \in 0 .. 3 /\ reloads \in 0 .. 3
      /\ stalls \in 0 .. 2
  BY DEF TypeInv, Types, FlowTypes, LadderTypes, HistTypes
<1>2. Result(o) \in Results /\ "ok" \in Results /\ "error" \in Results
  BY ResultOf DEF Results
<1>l. ASSUME NEW r, Leave(r) PROVE pc' \in {"idle", "exit"}
  BY <1>l DEF Leave
<1>3. CASE o \in {"full", "short512", "error"}
  <2>1. \E r \in Results : Leave(r) /\ UNCHANGED <<ladderVars, dev, stalls>>
    <3>1. CASE o = "error"
      BY <1>2, <1>3, <3>1 DEF Ladder462
    <3>2. CASE o # "error"
      BY <1>2, <1>3, <3>2 DEF Ladder462
    <3> QED BY <3>1, <3>2
  <2> QED BY <1>1, <2>1, <1>l DEF GoesOn, Counts, ladderVars
<1>4. CASE o \notin {"full", "short512", "error"} /\ (aborted \/ attempt > 6)
  <2>1. Leave(Result(o)) /\ UNCHANGED <<ladderVars, dev, stalls>>
    BY <1>4 DEF Ladder462
  <2> QED BY <1>1, <1>2, <2>1, <1>l DEF GoesOn, Counts, ladderVars
<1>5. CASE o \notin {"full", "short512", "error"} /\ ~(aborted \/ attempt > 6)
  <2>1. NoteStall /\ attempt' = attempt + 1 /\ UNCHANGED <<retries, exitFailed, res>>
    BY <1>5 DEF Ladder462
  <2>2. stalls' \in 0 .. 2 /\ attempt' \in 0 .. 12
    BY <1>1, <1>5, <2>1 DEF NoteStall
  <2>3. CASE o \in {"tiny", "zero"}
    <3>1. IF zeros + 1 < 4 THEN zeros' = zeros + 1 /\ Again /\ UNCHANGED reloads
          ELSE zeros' = 0 /\ ResetAndRearm /\ FreshWindow
      BY <1>5, <2>3 DEF Ladder462
    <3>2. zeros' \in 0 .. 3 /\ reloads' \in 0 .. 3
      BY <1>1, <3>1 DEF FreshWindow
    <3>3. Counts
      BY <1>1, <2>1, <2>2, <3>1, <3>2 DEF Counts
    <3>4. pc' \in {"read", "begin"} /\ todo' = todo /\ dev' \in {dev, dev \ {"fx3"}}
      BY <3>1 DEF Again, ResetAndRearm
    <3> QED BY <1>1, <2>1, <3>3, <3>4 DEF GoesOn
  <2>4. CASE trig /\ reloads < 3 /\ Reload /\ zeros' = 0
    <3>1. Counts
      BY <1>1, <2>1, <2>2, <2>4 DEF Counts, Reload
    <3> QED BY <2>1, <2>4, <3>1 DEF GoesOn, Reload
  <2>5. CASE Again /\ UNCHANGED reloads /\ zeros' = 0
    <3>1. Counts
      BY <1>1, <2>1, <2>2, <2>5 DEF Counts
    <3> QED BY <1>1, <2>1, <2>5, <3>1 DEF GoesOn, Again
  <2> QED BY <1>5, <2>3, <2>4, <2>5 DEF Ladder462
<1> QED BY <1>3, <1>4, <1>5

\* The read of whichever profile.
LEMMA ReadGoes ==
  ASSUME TypeInv, ReadEnds
  PROVE  pc = "read" /\ todo = <<>> /\ GoesOn /\ Counts
<1>1. PICK o \in Outcomes :
        CASE die = "imx174" -> Read174(o) [] die = "imx178" -> Read178(o)
          [] die = "imx290" -> Ladder290(o) [] die = "imx462" -> Ladder462(o)
          [] OTHER -> ReadDDR(o)
  BY DEF ReadEnds
<1>2. /\ pc = "read" /\ todo = <<>> /\ retries \in 0 .. 2 /\ attempt \in 0 .. 12 /\ zeros \in 0 .. 3
      /\ reloads \in 0 .. 3 /\ stalls \in 0 .. 2
  BY DEF ReadEnds, TypeInv, Types, FlowTypes, LadderTypes, HistTypes
<1>3. Result(o) \in Results /\ "ok" \in Results /\ "aborted" \in Results
  BY ResultOf DEF Results
<1>4. CASE Read174(o)
  <2>1. PICK r \in Results : Leave(r)
    BY <1>3, <1>4 DEF Read174
  <2>2. UNCHANGED <<ladderVars, dev>> /\ stalls' \in 0 .. 2
    BY <1>2, <1>4 DEF Read174, NoteStall
  <2> QED BY <1>2, <2>1, <2>2 DEF GoesOn, Counts, ladderVars
<1>5. CASE Read178(o)
  BY <1>2, <1>3, <1>5 DEF Read178, GoesOn, Counts, ladderVars
<1>6. CASE ReadDDR(o)
  BY <1>2, <1>3, <1>6 DEF ReadDDR, GoesOn, Counts, ladderVars
<1>7. CASE Ladder290(o)
  BY <1>2, <1>7, Ladder290Goes
<1>8. CASE Ladder462(o)
  BY <1>2, <1>8, Ladder462Goes
<1> QED BY <1>1, <1>4, <1>5, <1>6, <1>7, <1>8

\* A step keeps the types of what the call is about.
LEMMA NextHeld == ASSUME HeldTypes, [Next]_vars PROVE HeldTypes'
<1> USE DEF HeldTypes, devVars
<1>1. CASE UNCHANGED vars
  BY <1>1 DEF vars
<1>2. CASE Start \/ Abort \/ TickerPulses \/ TickerPulsed \/ TickerStops
  BY <1>2 DEF Start, Abort, TickerPulses, TickerPulsed, TickerStops, Tick
<1>3. CASE BeginArm \/ Transfer \/ TransferFails \/ HoldAborted \/ ReadEnds \/ Joined
  BY <1>3 DEF BeginArm, Transfer, TransferFails, HoldAborted, ReadEnds, Joined
<1>4. CASE Armed \/ Opened \/ Held \/ Rearmed \/ Closed \/ Dropped \/ Returned \/ Reloaded
  BY <1>4 DEF Armed, Opened, Held, Rearmed, Closed, Dropped, Returned, Reloaded, StepTo
<1> QED BY <1>1, <1>2, <1>3, <1>4 DEF Next, WorkerSteps

\* A step keeps the types of the worker's place.
LEMMA NextFlow == ASSUME TypeInv, [Next]_vars PROVE FlowTypes'
<1>t. FlowTypes
  BY DEF TypeInv, Types
<1> USE DEF FlowTypes
<1>1. CASE UNCHANGED vars
  BY <1>t, <1>1 DEF vars
<1>2. CASE Start \/ Abort \/ BeginArm \/ Transfer \/ HoldAborted
  BY <1>t, <1>2 DEF Start, Abort, BeginArm, Transfer, HoldAborted
<1>3. CASE TransferFails
  <2>1. pc \notin {"idle", "begin", "hold", "read", "join"}
    BY <1>3, Failed
  <2> QED BY <1>t, <1>3, <2>1 DEF TransferFails, Leave
<1>4. CASE Armed \/ Opened \/ Held \/ Rearmed \/ Closed \/ Dropped \/ Returned \/ Reloaded
  BY <1>t, <1>4 DEF Armed, Opened, Held, Rearmed, Closed, Dropped, Returned, Reloaded, StepTo
<1>5. CASE ReadEnds
  BY <1>5, ReadGoes DEF GoesOn, Leave
<1>6. CASE Joined
  BY <1>6 DEF Joined, Leave
<1>7. CASE TickerPulses \/ TickerPulsed \/ TickerStops
  BY <1>t, <1>7 DEF TickerPulses, TickerPulsed, TickerStops, Tick
<1> QED BY <1>1, <1>2, <1>3, <1>4, <1>5, <1>6, <1>7 DEF Next, WorkerSteps

\* A step keeps the types of the device and its bus.
LEMMA NextBus == ASSUME TypeInv, [Next]_vars PROVE BusTypes'
<1>t. BusTypes
  BY DEF TypeInv, Types
<1> USE DEF BusTypes, histVars
<1>1. CASE UNCHANGED vars
  BY <1>t, <1>1 DEF vars
<1>2. CASE Start \/ Abort \/ BeginArm \/ HoldAborted
  BY <1>t, <1>2 DEF Start, Abort, BeginArm, HoldAborted, Bits
<1>3. CASE Transfer
  <2>1. PICK t \in Transfers : dev' = (dev \ t.clr) \cup t.set /\ win' = WindowAfter(t)
    BY <1>3, Transferred
  <2>2. dev' \subseteq Bits
    BY <1>t, <2>1 DEF Transfers
  <2>3. win' \in {"none", "open", "stale", "released"}
    BY <1>t, <2>1 DEF WindowAfter
  <2> QED BY <1>t, <1>3, <2>2, <2>3 DEF Transfer
<1>4. CASE TransferFails
  <2>1. PICK t \in Transfers : dev' \in {dev, (dev \ t.clr) \cup t.set}
    BY <1>4, Failed
  <2>2. dev' \subseteq Bits
    BY <1>t, <2>1 DEF Transfers
  <2> QED BY <1>t, <1>4, <2>2 DEF TransferFails
<1>5. CASE Armed \/ Opened \/ Held \/ Rearmed \/ Closed \/ Dropped \/ Returned \/ Reloaded
  BY <1>t, <1>5 DEF Armed, Opened, Held, Rearmed, Closed, Dropped, Returned, Reloaded, StepTo
<1>6. CASE ReadEnds
  <2>1. dev' \in {dev, dev \ {"fx3"}}
    BY <1>6, ReadGoes DEF GoesOn
  <2> QED BY <1>t, <1>6, <2>1 DEF ReadEnds
<1>7. CASE Joined
  BY <1>t, <1>7 DEF Joined
<1>8. CASE TickerPulses \/ TickerPulsed \/ TickerStops
  BY <1>t, <1>8 DEF TickerPulses, TickerPulsed, TickerStops, Tick
<1> QED BY <1>1, <1>2, <1>3, <1>4, <1>5, <1>6, <1>7, <1>8 DEF Next, WorkerSteps

\* A step keeps the ladders' counters in their bounds.
LEMMA NextLadder == ASSUME TypeInv, [Next]_vars PROVE LadderTypes'
<1>t. LadderTypes
  BY DEF TypeInv, Types
<1> USE DEF LadderTypes, ladderVars
<1>1. CASE UNCHANGED vars
  BY <1>t, <1>1 DEF vars
<1>2. CASE Start \/ Abort \/ BeginArm \/ HoldAborted
  BY <1>t, <1>2, SMTT(30) DEF Start, Abort, BeginArm, HoldAborted
<1>3. CASE Transfer \/ TickerPulses \/ TickerPulsed \/ TickerStops
  BY <1>t, <1>3 DEF Transfer, TickerPulses, TickerPulsed, TickerStops, Tick
<1>4. CASE TransferFails
  <2>1. pc' \in {pc, "idle", "exit"} /\ UNCHANGED ladderVars
    BY <1>4 DEF TransferFails, Leave
  <2> QED BY <1>t, <2>1
<1>5. CASE Armed \/ Opened \/ Held \/ Rearmed \/ Closed \/ Dropped \/ Returned \/ Reloaded
  <2>1. UNCHANGED ladderVars /\ (pc' \notin {"idle", "exit"} => pc \notin {"idle", "exit"})
    BY <1>5 DEF Armed, Opened, Held, Rearmed, Closed, Dropped, Returned, Reloaded, StepTo
  <2> QED BY <1>t, <2>1
<1>6. CASE ReadEnds
  BY <1>6, ReadGoes DEF Counts
<1>7. CASE Joined
  BY <1>t, <1>7 DEF Joined, Leave
<1> QED BY <1>1, <1>2, <1>3, <1>4, <1>5, <1>6, <1>7 DEF Next, WorkerSteps

\* A step keeps the types of the bounds and the history.
LEMMA NextHist == ASSUME TypeInv, [Next]_vars PROVE HistTypes'
<1>t. HistTypes
  BY DEF TypeInv, Types
<1>n. MaxCalls \in Nat /\ MaxFaults \in Nat
  BY WorkersAssumption DEF WorkersAssumption
<1> USE DEF HistTypes, histVars
<1>1. CASE UNCHANGED vars
  BY <1>t, <1>1 DEF vars
<1>2. CASE Start
  <2>1. calls' \in 0 .. MaxCalls /\ faults' = faults /\ res' = "none" /\ exitFailed' = FALSE
    BY <1>t, <1>n, <1>2 DEF Start
  <2>2. stalls' \in 0 .. 2
    BY <1>t, <1>2 DEF Start, NoteStall
  <2> QED BY <1>t, <2>1, <2>2
<1>3. CASE Abort \/ BeginArm \/ HoldAborted \/ Transfer
  BY <1>t, <1>3 DEF Abort, BeginArm, HoldAborted, Transfer
<1>4. CASE TransferFails
  <2>1. faults' \in 0 .. MaxFaults /\ UNCHANGED <<calls, stalls>>
    BY <1>t, <1>n, <1>4 DEF TransferFails
  <2>2. res' \in {res, "error"} /\ exitFailed' \in BOOLEAN
    BY <1>t, <1>4 DEF TransferFails, Leave
  <2> QED BY <1>t, <2>1, <2>2
<1>5. CASE Armed \/ Opened \/ Held \/ Rearmed \/ Closed \/ Dropped \/ Returned \/ Reloaded
  <2>1. UNCHANGED <<calls, faults, histVars>>
    BY <1>5 DEF Armed, Opened, Held, Rearmed, Closed, Dropped, Returned, Reloaded, StepTo
  <2> QED BY <1>t, <2>1
<1>6. CASE ReadEnds
  <2>1. UNCHANGED <<calls, faults>>
    BY <1>6 DEF ReadEnds
  <2>2. res' \in Results \cup {res} /\ exitFailed' = exitFailed /\ stalls' \in 0 .. 2
    BY <1>6, ReadGoes DEF GoesOn, Counts, Leave
  <2> QED BY <1>t, <2>1, <2>2 DEF Results
<1>7. CASE Joined
  BY <1>t, <1>7 DEF Joined, Leave
<1>8. CASE TickerPulses \/ TickerPulsed \/ TickerStops
  BY <1>t, <1>8 DEF TickerPulses, TickerPulsed, TickerStops, Tick
<1> QED BY <1>1, <1>2, <1>3, <1>4, <1>5, <1>6, <1>7, <1>8 DEF Next, WorkerSteps

\* A step leaves chains that are typed and not empty.
LEMMA NextTodo == ASSUME TypeInv, [Next]_vars PROVE todo' \in Todos
<1> USE DEF TypeInv, histVars
<1>h. Worker.halt \in Todos /\ <<>> \in Todos
  BY Loaded, Empty
<1>c. /\ Chain(Worker.arm) \in Todos /\ Chain(Worker.rearm) \in Todos
      /\ Chain(Worker.open) \in Todos /\ Chain(Worker.close) \in Todos
  BY Loaded
<1>1. CASE UNCHANGED vars \/ Start \/ Abort \/ TickerPulses \/ TickerPulsed \/ TickerStops
  BY <1>1, <1>h DEF vars, Start, Abort, TickerPulses, TickerPulsed, TickerStops, Tick
<1>2. CASE \/ BeginArm \/ Armed \/ Opened \/ Held \/ Rearmed \/ Closed \/ Dropped
           \/ Returned \/ Reloaded \/ HoldAborted
  BY <1>2, <1>h, <1>c DEF BeginArm, Armed, Opened, Held, Rearmed, Closed, Dropped, Returned, Reloaded,
                          HoldAborted, StepTo
<1>3. CASE Transfer
  BY <1>3, Transferred
<1>4. CASE TransferFails
  <2>1. Tail(todo) \in Todos
    BY <1>4, Failed
  <2> QED BY <1>4, <1>h, <2>1 DEF TransferFails, Leave
<1>5. CASE ReadEnds
  <2>1. <<<<Nothing>>>> \in Todos
    BY DEF Todos, Chains, Transfers, Nothing
  <2> QED BY <1>5, <1>h, <2>1, ReadGoes DEF GoesOn, Leave
<1>6. CASE Joined
  BY <1>6, <1>h DEF Joined, Leave
<1> QED BY <1>1, <1>2, <1>3, <1>4, <1>5, <1>6 DEF Next, WorkerSteps

\* A step keeps the type invariant.
LEMMA NextTypes == ASSUME TypeInv, [Next]_vars PROVE TypeInv'
BY NextHeld, NextFlow, NextBus, NextLadder, NextHist, NextTodo DEF TypeInv, Types

\* The type invariant holds at first.
LEMMA InitTypes == ASSUME Init PROVE TypeInv
<1>1. MaxCalls \in Nat /\ MaxFaults \in Nat /\ Dies \subseteq AllDies
  BY WorkersAssumption DEF WorkersAssumption
<1>2. HeldTypes /\ FlowTypes
  BY <1>1 DEF Init, HeldTypes, FlowTypes
<1>3. BusTypes
  BY DEF Init, BusTypes, Bits
<1>4. LadderTypes
  BY DEF Init, LadderTypes
<1>5. HistTypes
  <2>1. calls = 0 /\ faults = 0 /\ stalls = 0 /\ res = "none" /\ exitFailed \in BOOLEAN
    BY DEF Init
  <2>2. calls \in 0 .. MaxCalls /\ faults \in 0 .. MaxFaults /\ stalls \in 0 .. 2
    BY <1>1, <2>1
  <2> QED BY <2>1, <2>2 DEF HistTypes
<1>6. todo \in Todos
  BY Empty DEF Init
<1> QED BY <1>2, <1>3, <1>4, <1>5, <1>6 DEF TypeInv, Types

\* The type invariant implies the one the run checks.
LEMMA Typing == ASSUME TypeInv PROVE TypeOK
<1>1. Transfers = [set : SUBSET Bits, clr : SUBSET Bits]
  BY DEF Transfers
<1>2. todo \in Seq(Chains) /\ \A c \in Chains : c \in Seq(Transfers)
  BY DEF TypeInv, Todos, Chains
<1> HIDE DEF Chains
<1>3. todo \in Seq(Seq(Transfers))
  BY <1>2
<1>4. todo \in Seq(Seq([set : SUBSET Bits, clr : SUBSET Bits]))
  BY <1>1, <1>3
<1> QED BY <1>4 DEF TypeInv, Types, HeldTypes, FlowTypes, BusTypes, LadderTypes, HistTypes, TypeOK

\* What the next chains are when the worker loads them.
LEMMA Loads ==
  ASSUME TypeInv
  PROVE  /\ Gates(Worker) /\ Halts(Worker) /\ KeepsWait(Worker)
         /\ Worker.ticks => die \in {"imx455", "imx571", "imx585zwo"}
         /\ todo' = Chain(Worker.arm) => Left' = Of(Worker.arm)
         /\ todo' = Chain(Worker.rearm) => Left' = Of(Worker.rearm)
         /\ todo' = Chain(Worker.open) => Left' = Of(Worker.open)
         /\ todo' = Chain(Worker.close) => Left' = Of(Worker.close)
         /\ todo' = Worker.halt => Left' = Elements(Worker.halt)
         /\ todo' = <<>> => Left' = {}
         /\ todo = <<>> => Left = {}
         /\ todo' = todo => Left' = Left
         /\ todo' = <<<<Nothing>>>> => Left' = {Nothing}
<1>1. Elements(<<<<Nothing>>>>) = {Nothing}
  BY DEF Elements, Of
<1> QED BY <1>1, Loaded, Empty DEF Sound, Left

\* A step keeps TickInv.
LEMMA NextTick == ASSUME TypeInv, TickInv, [Next]_vars PROVE TickInv'
<1> USE DEF TickInv, devVars
<1>1. CASE UNCHANGED vars
  BY <1>1 DEF vars
<1>2. CASE Start \/ Abort \/ BeginArm \/ HoldAborted \/ Transfer \/ Joined
  BY <1>2 DEF Start, Abort, BeginArm, HoldAborted, Transfer, Joined
<1>3. CASE TransferFails
  BY <1>3, Failed DEF TransferFails
<1>4. CASE Armed \/ Closed
  BY <1>4, Loads DEF Armed, Closed, StepTo
<1>5. CASE Opened \/ Held \/ Rearmed \/ Dropped \/ Returned \/ Reloaded
  BY <1>5 DEF Opened, Held, Rearmed, Dropped, Returned, Reloaded, StepTo
<1>6. CASE ReadEnds
  BY <1>6 DEF ReadEnds, ReadDDR
<1>7. CASE TickerPulses \/ TickerPulsed \/ TickerStops
  BY <1>7 DEF TickerPulses, TickerPulsed, TickerStops, Tick
<1> QED BY <1>1, <1>2, <1>3, <1>4, <1>5, <1>6, <1>7 DEF Next, WorkerSteps

\* The exit's chains halt the camera, whatever state it is in.
LEMMA ExitRests ==
  ASSUME TypeInv, UNCHANGED <<devVars, trig>>, pc' = "exit", todo' = Worker.halt
  PROVE  RestInv'
<1>1. Left' = Elements(Worker.halt) /\ Halts(Worker)
  BY Loads
<1> QED BY <1>1 DEF RestInv, HaltedOnReturn, Halts, devVars

\* So does an end that skips it, as nothing is promised of that one.
LEMMA LeaveRests ==
  ASSUME TypeInv, UNCHANGED <<devVars, trig, first>>, NEW r, Leave(r)
  PROVE  RestInv'
<1>1. CASE pc' = "exit" /\ todo' = Worker.halt
  BY <1>1, ExitRests
<1>2. CASE pc' = "idle" /\ first /\ ~Worker.covers
  <2>1. Worker' = Worker /\ first' = first
    BY WorkerKept
  <2> QED BY <1>2, <2>1 DEF RestInv, HaltedOnReturn
<1> QED BY <1>1, <1>2 DEF Leave

\* A step keeps RestInv.
LEMMA NextRest == ASSUME TypeInv, RestInv, [Next]_vars PROVE RestInv'
<1> USE DEF RestInv
<1>1. CASE UNCHANGED vars
  <2>1. Worker' = Worker
    BY <1>1, WorkerKept DEF vars
  <2>2. Left' = Left
    BY <1>1 DEF vars, Left
  <2> QED BY <1>1, <2>1, <2>2 DEF vars, HaltedOnReturn, devVars, histVars
<1>2. CASE Start \/ BeginArm \/ HoldAborted
  BY <1>2 DEF Start, BeginArm, HoldAborted, HaltedOnReturn
<1>3. CASE Abort \/ TickerPulses \/ TickerPulsed \/ TickerStops
  <2>1. UNCHANGED <<devVars, trig, first, pc, todo, dev, exitFailed>>
    BY <1>3 DEF Abort, TickerPulses, TickerPulsed, TickerStops, Tick, histVars
  <2>2. Worker' = Worker /\ Left' = Left
    BY <2>1, WorkerKept DEF Left
  <2> QED BY <2>1, <2>2 DEF HaltedOnReturn, devVars
<1>4. CASE Transfer
  <2>1. PICK t \in Transfers : dev' = (dev \ t.clr) \cup t.set /\ Left = {t} \cup Left'
    BY <1>4, Transferred
  <2>2. pc # "idle" /\ UNCHANGED <<pc, exitFailed, die>>
    BY <1>4 DEF Transfer, TypeInv, Types, FlowTypes, devVars
  <2>3. HaltedOnReturn'
    BY <2>2 DEF HaltedOnReturn
  <2> QED BY <2>1, <2>2, <2>3
<1>5. CASE TransferFails
  <2>1. CASE BestEffort
    BY <1>5, <2>1 DEF TransferFails, BestEffort, HaltedOnReturn
  <2>2. CASE ~BestEffort
    <3>1. Leave("error") /\ UNCHANGED <<devVars, trig, first>>
      BY <1>5, <2>2 DEF TransferFails
    <3> QED BY <3>1, LeaveRests
  <2> QED BY <2>1, <2>2
<1>6. CASE Armed \/ Opened \/ Held \/ Rearmed \/ Closed \/ Reloaded
  BY <1>6 DEF Armed, Opened, Held, Rearmed, Closed, Reloaded, StepTo, HaltedOnReturn
<1>7. CASE Dropped
  BY <1>7, ExitRests DEF Dropped, StepTo
<1>8. CASE Returned
  <2>1. UNCHANGED <<devVars, dev, exitFailed>> /\ pc = "exit" /\ Left = {} /\ pc' = "idle"
    BY <1>8, Loads DEF Returned, StepTo, histVars
  <2> QED BY <2>1 DEF HaltedOnReturn, devVars
<1>9. CASE ReadEnds
  <2>1. UNCHANGED <<devVars, trig, first>>
    BY <1>9 DEF ReadEnds
  <2>2. CASE \E r \in Results : Leave(r)
    BY <2>1, <2>2, LeaveRests
  <2>3. CASE pc' \in {"join", "read", "begin", "reload"}
    BY <2>3 DEF HaltedOnReturn
  <2> QED BY <1>9, <2>2, <2>3, ReadGoes DEF GoesOn
<1>10. CASE Joined
  BY <1>10, LeaveRests DEF Joined
<1> QED BY <1>1, <1>2, <1>3, <1>4, <1>5, <1>6, <1>7, <1>8, <1>9, <1>10 DEF Next, WorkerSteps

\* Ending the call, with the signal down unless a failure left it up.
LEMMA LeaveSignal ==
  ASSUME TypeInv, UNCHANGED <<devVars, trig>>, NEW r, Leave(r),
         lost' => faults' > 0, "sig" \in dev' => lost'
  PROVE  SigInv'
<1>1. \/ pc' = "idle" /\ todo' = <<>>
      \/ pc' = "exit" /\ todo' = Worker.halt
  BY DEF Leave
<1>2. pc' = "exit" => \A t \in Left' : "sig" \notin t.set
  BY <1>1, Loads DEF Halts
<1> QED BY <1>1, <1>2 DEF SigInv

\* A step keeps SigInv.
LEMMA NextSig == ASSUME TypeInv, SigInv, [Next]_vars PROVE SigInv'
<1>g. Gates(Worker) /\ Halts(Worker)
  BY Loads
<1>i. faults \in Nat
  BY WorkersAssumption DEF WorkersAssumption, TypeInv, Types, HistTypes
<1>1. CASE UNCHANGED vars \/ Abort \/ TickerPulses \/ TickerPulsed \/ TickerStops
  <2>1. UNCHANGED <<devVars, trig, pc, todo, dev, lost, faults>>
    BY <1>1 DEF vars, Abort, TickerPulses, TickerPulsed, TickerStops, Tick, histVars
  <2>2. Windowed' = Windowed /\ Left' = Left
    BY <2>1, WorkerKept DEF Left
  <2> QED BY <2>1, <2>2 DEF SigInv
<1>2. CASE Start
  <2>1. pc' = "begin" /\ UNCHANGED <<lost, faults>> /\ ("sig" \in dev' => "sig" \in dev) /\ pc = "idle"
    BY <1>2 DEF Start
  <2> QED BY <2>1 DEF SigInv
<1>3. CASE BeginArm
  <2>1. pc = "begin" /\ pc' = "arm" /\ Left' = Of(Worker.arm) /\ UNCHANGED <<dev, lost, faults>>
    BY <1>3, Loads DEF BeginArm
  <2> QED BY <1>g, <2>1 DEF SigInv, Gates
<1>4. CASE Transfer
  <2>1. PICK t \in Transfers : /\ dev' = (dev \ t.clr) \cup t.set /\ Left = {t} \cup Left'
                               /\ todo' = <<>> => Final(todo) = t
                               /\ todo' # <<>> => Final(todo') = Final(todo)
    BY <1>4, Transferred
  <2>2. /\ todo # <<>> /\ UNCHANGED <<devVars, trig, pc, faults>> /\ lost' = (lost /\ "sig" \in dev')
    BY <1>4 DEF Transfer
  <2>3. Windowed' = Windowed
    BY <2>2, WorkerKept
  <2>4. pc \notin {"idle", "begin", "hold", "read", "join"}
    BY <2>2 DEF TypeInv, Types, FlowTypes
  <2>5. CASE pc \in {"arm", "rearm", "reload", "exit"}
    <3>1. "sig" \in dev' => "sig" \in dev
      BY <2>1, <2>5 DEF SigInv
    <3> QED BY <2>1, <2>2, <2>3, <2>5, <3>1 DEF SigInv
  <2>6. CASE pc = "open"
    BY <2>1, <2>2, <2>3, <2>6 DEF SigInv
  <2>7. CASE pc \in {"close", "drop"}
    BY <2>1, <2>2, <2>3, <2>7 DEF SigInv, Lowers
  <2> QED BY <2>4, <2>5, <2>6, <2>7 DEF TypeInv, Types, FlowTypes
<1>5. CASE TransferFails
  <2>1. faults' > 0 /\ lost' = ("sig" \in dev') /\ UNCHANGED <<devVars, trig>>
    BY <1>5, <1>i DEF TransferFails
  <2>2. CASE BestEffort
    <3>1. todo' = Tail(todo) /\ pc' = pc
      BY <1>5, <2>2 DEF TransferFails
    <3>2. /\ todo # <<>> /\ Left' \subseteq Left
          /\ todo' # <<>> => Final(todo') = Final(todo)
      BY <1>5, <3>1, Failed DEF Left
    <3> QED BY <2>1, <2>2, <3>1, <3>2 DEF SigInv, BestEffort
  <2>3. CASE ~BestEffort
    <3>1. Leave("error")
      BY <1>5, <2>3 DEF TransferFails
    <3> QED BY <2>1, <3>1, LeaveSignal
  <2> QED BY <2>2, <2>3
<1>6. CASE Armed
  <2>1. /\ pc = "arm" /\ UNCHANGED <<devVars, trig, dev, lost, faults>>
        /\ \/ pc' = "open" /\ todo' = Chain(Worker.open)
           \/ pc' = "read" /\ todo' = <<>>
    BY <1>6 DEF Armed, StepTo, histVars
  <2>2. Windowed' = Windowed
    BY <2>1, WorkerKept
  <2>3. CASE pc' = "open" /\ todo' = Chain(Worker.open)
    <3>1. Left' = Of(Worker.open) /\ (~Windowed => todo' = <<>>)
      BY <1>g, <2>3, Loads DEF Gates, Chain
    <3> QED BY <1>g, <2>1, <2>2, <2>3, <3>1 DEF SigInv, Gates
  <2>4. CASE pc' = "read" /\ todo' = <<>>
    BY <2>1, <2>4 DEF SigInv
  <2> QED BY <2>1, <2>3, <2>4
<1>7. CASE Opened \/ Held
  <2>1. /\ UNCHANGED <<devVars, trig, dev, lost, faults>>
        /\ \/ pc = "open" /\ pc' = "hold"
           \/ pc = "hold" /\ pc' = "rearm" /\ todo' = Chain(Worker.rearm)
    BY <1>7 DEF Opened, Held, StepTo, histVars
  <2>2. Windowed' = Windowed
    BY <2>1, WorkerKept
  <2>3. pc' = "rearm" => Left' = Of(Worker.rearm)
    BY <2>1, Loads
  <2> QED BY <1>g, <2>1, <2>2, <2>3 DEF SigInv, Gates
<1>8. CASE Rearmed \/ HoldAborted
  <2>1. /\ UNCHANGED <<devVars, trig, dev, lost, faults>> /\ pc \in {"hold", "rearm"}
        /\ pc' \in {"close", "drop"} /\ todo' = Chain(Worker.close)
    BY <1>8 DEF Rearmed, HoldAborted, StepTo, histVars
  <2>2. Windowed => todo' # <<>> /\ Lowers(Final(todo'))
    BY <1>g, <2>1, Loaded DEF Gates, Lasts, Lowers
  <2>3. ~Windowed => todo' = <<>>
    BY <1>g, <2>1 DEF Gates, Chain
  <2>4. ~Windowed => ("sig" \in dev => lost)
    BY <2>1 DEF SigInv
  <2> QED BY <2>1, <2>2, <2>3, <2>4 DEF SigInv
<1>9. CASE Closed \/ Reloaded
  BY <1>9 DEF Closed, Reloaded, StepTo, SigInv, histVars
<1>10. CASE Dropped \/ Returned
  <2>1. /\ UNCHANGED <<dev, lost, faults>> /\ todo = <<>>
        /\ \/ pc = "drop" /\ pc' = "exit" /\ todo' = Worker.halt
           \/ pc = "exit" /\ pc' = "idle"
    BY <1>10 DEF Dropped, Returned, StepTo, histVars
  <2>2. pc' = "exit" => \A t \in Left' : "sig" \notin t.set
    BY <1>g, <2>1, Loads DEF Halts
  <2> QED BY <2>1, <2>2 DEF SigInv
<1>11. CASE ReadEnds
  <2>1. UNCHANGED <<devVars, trig, lost, faults>>
    BY <1>11 DEF ReadEnds
  <2>2. pc = "read" /\ GoesOn
    BY <1>11, ReadGoes
  <2>3. ("sig" \in dev' => lost') /\ (lost' => faults' > 0)
    BY <2>1, <2>2 DEF GoesOn, SigInv
  <2>4. CASE \E r \in Results : Leave(r)
    BY <2>1, <2>3, <2>4, LeaveSignal
  <2>5. CASE pc' \in {"join", "read", "begin"}
    BY <2>3, <2>5 DEF SigInv
  <2>6. CASE pc' = "reload" /\ todo' = <<<<Nothing>>>>
    <3>1. Left' = {Nothing}
      BY <2>6, Loads
    <3> QED BY <2>3, <2>6, <3>1 DEF SigInv, Nothing
  <2> QED BY <2>2, <2>4, <2>5, <2>6 DEF GoesOn
<1>12. CASE Joined
  <2>1. UNCHANGED <<devVars, trig, dev, lost, faults>> /\ Leave(res) /\ pc = "join"
    BY <1>12 DEF Joined
  <2>2. ("sig" \in dev' => lost') /\ (lost' => faults' > 0)
    BY <2>1 DEF SigInv
  <2> QED BY <2>1, <2>2, LeaveSignal
<1> QED BY <1>1, <1>2, <1>3, <1>4, <1>5, <1>6, <1>7, <1>8, <1>9, <1>10, <1>11, <1>12 DEF Next, WorkerSteps

\* A step keeps GateInv.
LEMMA NextGate == ASSUME TypeInv, SigInv, GateInv, [Next]_vars PROVE GateInv'
<1>g. Gates(Worker) /\ trig \in BOOLEAN
  BY Loads DEF TypeInv, Types, HeldTypes
<1>i. faults \in Nat
  BY WorkersAssumption DEF WorkersAssumption, TypeInv, Types, HistTypes
<1>1. CASE UNCHANGED vars \/ Abort \/ TickerPulses \/ TickerPulsed \/ TickerStops
  <2>1. UNCHANGED <<devVars, trig, pc, todo, dev, lost, faults, win>>
    BY <1>1 DEF vars, Abort, TickerPulses, TickerPulsed, TickerStops, Tick, histVars
  <2>2. Windowed' = Windowed /\ Left' = Left
    BY <2>1, WorkerKept DEF Left
  <2> QED BY <2>1, <2>2 DEF GateInv
<1>2. CASE Start \/ BeginArm
  BY <1>2 DEF Start, BeginArm, GateInv
<1>4. CASE Transfer
  <2>1. PICK t \in Transfers : /\ dev' = (dev \ t.clr) \cup t.set /\ Left = {t} \cup Left'
                               /\ win' = WindowAfter(t)
                               /\ todo' = <<>> => Final(todo) = t
    BY <1>4, Transferred
  <2>2. /\ todo # <<>> /\ UNCHANGED <<devVars, trig, pc, faults>> /\ lost' = (lost /\ "sig" \in dev')
    BY <1>4 DEF Transfer
  <2>3. Windowed' = Windowed
    BY <2>2, WorkerKept
  <2>4. pc \notin {"idle", "begin", "hold", "read", "join"}
    BY <2>2 DEF TypeInv, Types, FlowTypes
  <2>5. win' = "stale" => faults' > 0
    BY <2>1, <2>2 DEF WindowAfter, GateInv, SigInv
  <2>6. CASE pc \in {"arm", "rearm", "reload"}
    <3>1. win' = win
      BY <2>1, <2>6 DEF WindowAfter, SigInv
    <3> QED BY <2>2, <2>3, <2>5, <2>6, <3>1 DEF GateInv
  <2>7. CASE pc = "open"
    <3>1. "sig" \notin t.clr
      BY <2>1, <2>7 DEF SigInv
    <3> QED BY <2>1, <2>2, <2>3, <2>5, <2>7, <3>1 DEF GateInv, WindowAfter
  <2>8. CASE pc = "close"
    <3>1. todo' = <<>> => Lowers(t)
      BY <2>1, <2>2, <2>8 DEF SigInv
    <3> QED BY <2>1, <2>2, <2>3, <2>5, <2>8, <3>1 DEF GateInv, WindowAfter, Lowers
  <2>9. CASE pc \in {"drop", "exit"}
    BY <2>2, <2>5, <2>9 DEF GateInv
  <2> QED BY <2>4, <2>6, <2>7, <2>8, <2>9 DEF TypeInv, Types, FlowTypes
<1>5. CASE TransferFails
  <2>1. faults' > 0 /\ win' = win /\ pc' \in {"drop", "exit", "idle"}
    BY <1>5, <1>i DEF TransferFails, Leave, BestEffort
  <2> QED BY <2>1 DEF GateInv
<1>6. CASE Armed
  <2>1. /\ pc = "arm" /\ UNCHANGED <<devVars, trig, dev, lost, faults, win>>
        /\ \/ pc' = "open" /\ todo' = Chain(Worker.open)
           \/ pc' = "read" /\ todo' = <<>> /\ ~trig
    BY <1>6, <1>g DEF Armed, StepTo, histVars, Opens, Gates
  <2>2. Windowed' = Windowed
    BY <2>1, WorkerKept
  <2>3. CASE pc' = "open" /\ todo' = Chain(Worker.open)
    <3>1. Left' = Of(Worker.open)
      BY <2>3, Loads
    <3> QED BY <1>g, <2>1, <2>2, <2>3, <3>1 DEF GateInv, SigInv, Gates
  <2>4. CASE pc' = "read" /\ ~trig
    BY <2>1, <2>4 DEF GateInv
  <2> QED BY <2>1, <2>3, <2>4
<1>7. CASE Opened \/ Held \/ Rearmed \/ Closed
  <2>1. /\ UNCHANGED <<devVars, trig, dev, lost, faults, win>> /\ Left = {} /\ todo = <<>>
        /\ \/ pc = "open" /\ pc' = "hold"
           \/ pc = "hold" /\ pc' = "rearm"
           \/ pc = "rearm" /\ pc' = "close" /\ todo' = Chain(Worker.close)
           \/ pc = "close" /\ pc' = "read"
    BY <1>7, Loads DEF Opened, Held, Rearmed, Closed, StepTo, histVars
  <2>2. Windowed' = Windowed /\ (trig => Windowed)
    BY <2>1, WorkerKept DEF Windowed
  <2>3. pc' = "close" /\ Windowed => todo' # <<>>
    BY <1>g, <2>1, Loaded DEF Gates, Lasts
  <2> QED BY <2>1, <2>2, <2>3 DEF GateInv
<1>8. CASE HoldAborted \/ Dropped \/ Returned
  BY <1>8 DEF HoldAborted, Dropped, Returned, StepTo, GateInv, histVars
<1>9. CASE Reloaded
  BY <1>9 DEF Reloaded, StepTo, GateInv, histVars
<1>10. CASE ReadEnds
  <2>1. pc = "read" /\ UNCHANGED <<trig, win, faults>>
    BY <1>10 DEF ReadEnds
  <2>2. pc' \in {"idle", "exit", "join", "read", "begin", "reload"}
    BY <1>10, ReadGoes DEF GoesOn, Leave
  <2> QED BY <2>1, <2>2 DEF GateInv
<1>11. CASE Joined
  BY <1>11 DEF Joined, Leave, GateInv
<1> QED BY <1>1, <1>2, <1>4, <1>5, <1>6, <1>7, <1>8, <1>9, <1>10, <1>11 DEF Next, WorkerSteps

\* A step keeps WaitInv.
LEMMA NextWait == ASSUME TypeInv, WaitInv, [Next]_vars PROVE WaitInv'
<1>k. KeepsWait(Worker)
  BY Loads
<1>l. ASSUME NEW r, Leave(r), UNCHANGED <<devVars, trig>>, dev' = dev \/ "wait" \in dev', pc # "idle"
      PROVE  WaitInv'
  <2>1. pc' = "idle" \/ Left' = Elements(Worker.halt)
    BY <1>l, Loads DEF Leave
  <2> QED BY <1>k, <1>l, <2>1 DEF WaitInv, KeepsWait, devVars
<1>1. CASE UNCHANGED vars \/ Abort \/ TickerPulses \/ TickerPulsed \/ TickerStops
  <2>1. UNCHANGED <<devVars, trig, pc, todo, dev>>
    BY <1>1 DEF vars, Abort, TickerPulses, TickerPulsed, TickerStops, Tick
  <2>2. Left' = Left
    BY <2>1 DEF Left
  <2> QED BY <2>1, <2>2 DEF WaitInv, devVars
<1>2. CASE Start
  <2>1. Left' = {} /\ (trig' => "wait" \in dev')
    BY <1>2, Loads DEF Start
  <2> QED BY <2>1 DEF WaitInv
<1>3. CASE \/ BeginArm \/ HoldAborted \/ Armed \/ Opened \/ Held \/ Rearmed \/ Closed
           \/ Dropped \/ Returned \/ Reloaded
  <2>1. /\ UNCHANGED <<devVars, trig, dev>> /\ pc # "idle"
        /\ todo' \in {<<>>, Worker.halt, Chain(Worker.arm), Chain(Worker.rearm),
                      Chain(Worker.open), Chain(Worker.close)}
    BY <1>3 DEF BeginArm, HoldAborted, Armed, Opened, Held, Rearmed, Closed,
                  Dropped, Returned, Reloaded, StepTo
  <2>2. Left' \in {{}, Elements(Worker.halt), Of(Worker.arm), Of(Worker.rearm),
                   Of(Worker.open), Of(Worker.close)}
    BY <2>1, Loads
  <2> QED BY <1>k, <2>1, <2>2 DEF WaitInv, KeepsWait, devVars
<1>4. CASE Transfer
  <2>1. PICK t \in Transfers : dev' = (dev \ t.clr) \cup t.set /\ Left = {t} \cup Left'
    BY <1>4, Transferred
  <2> QED BY <1>4, <2>1 DEF WaitInv, Transfer, devVars
<1>5. CASE TransferFails
  <2>1. PICK t \in Transfers : t \in Left /\ dev' \in {dev, (dev \ t.clr) \cup t.set}
    BY <1>5, Failed
  <2>2. pc # "idle" /\ UNCHANGED <<devVars, trig>>
    BY <1>5, Failed DEF TransferFails
  <2>3. trig /\ die = "imx462" => "wait" \in dev'
    BY <2>1, <2>2 DEF WaitInv
  <2>4. CASE BestEffort
    <3>1. todo' = Tail(todo) /\ pc' = pc
      BY <1>5, <2>4 DEF TransferFails
    <3>2. Left' \subseteq Left
      BY <1>5, <3>1, Failed DEF Left
    <3> QED BY <2>2, <2>3, <3>1, <3>2 DEF WaitInv, devVars
  <2>5. CASE ~BestEffort
    <3>1. Leave("error")
      BY <1>5, <2>5 DEF TransferFails
    <3>2. pc' = "idle" \/ Left' = Elements(Worker.halt)
      BY <3>1, Loads DEF Leave
    <3> QED BY <1>k, <2>2, <2>3, <3>2 DEF WaitInv, KeepsWait, devVars
  <2> QED BY <2>4, <2>5
<1>6. CASE ReadEnds
  <2>1. UNCHANGED <<devVars, trig>> /\ pc # "idle"
    BY <1>6 DEF ReadEnds
  <2>2. dev' \in {dev, dev \ {"fx3"}}
    BY <1>6, ReadGoes DEF GoesOn
  <2>3. trig /\ die = "imx462" => "wait" \in dev'
    BY <2>1, <2>2 DEF WaitInv
  <2>4. pc' = "idle" \/ Left' \in {{}, {Nothing}, Elements(Worker.halt)}
    BY <1>6, ReadGoes, Loads DEF GoesOn, Leave
  <2> QED BY <1>k, <2>1, <2>3, <2>4 DEF WaitInv, KeepsWait, devVars, Nothing
<1>7. CASE Joined
  BY <1>7, <1>l DEF Joined
<1> QED BY <1>1, <1>2, <1>3, <1>4, <1>5, <1>6, <1>7 DEF Next, WorkerSteps

-----------------------------------------------------------------------------
(* The theorems *)

\* The inductive invariant.
IInv == TypeInv /\ SigInv /\ GateInv /\ WaitInv /\ RestInv /\ TickInv

\* It holds at first.
LEMMA InitInv == Init => IInv
<1> SUFFICES ASSUME Init PROVE IInv
  OBVIOUS
<1>1. TypeInv
  BY InitTypes
<1>2. Left = {} /\ dev = {"stop"} /\ pc = "idle" /\ win = "none" /\ ticker = "off" /\ lost = FALSE
  BY <1>1, Loads DEF Init
<1> QED BY <1>1, <1>2 DEF IInv, SigInv, GateInv, WaitInv, RestInv, TickInv, HaltedOnReturn

\* Every step keeps it.
LEMMA NextInv == IInv /\ [Next]_vars => IInv'
BY NextTypes, NextSig, NextGate, NextWait, NextRest, NextTick DEF IInv

\* So it always holds.
LEMMA Invariant == Spec => []IInv
BY InitInv, NextInv, PTL DEF Spec

\* A worker leaves the camera at rest: a call leaves the trigger signal up only when
\* one of its transfers failed with the signal up, it ends with the FX3, the readout
\* and the sensor stopped unless a transfer of its exit failed (or its first arm did,
\* on the two profiles that defer the halt after it), and no reload pulse outlives
\* the read.  For every profile, either link, any number of calls and failures, and
\* an abort at any moment (imx174.go to imx585.go, the workers).
THEOREM AtRest == Spec => []LeftAtRest
<1>1. IInv => LeftAtRest
  BY Typing DEF IInv, LeftAtRest, SignalDropped, TickerJoined, SigInv, RestInv, TickInv
<1> QED BY <1>1, Invariant, PTL

\* In the trigger band a frame is read only after this arm's own window was opened on
\* an edge and released, the re-arm after a ResetDevice included, and on the IMX462
\* with WaitMode still set; only a signal a failed transfer left up spoils the edge.
THEOREM Gated == Spec => []ReadsGated
<1>1. IInv => ReadsGated
  BY DEF IInv, ReadsGated, GateInv, WaitInv
<1> QED BY <1>1, Invariant, PTL
=============================================================================
