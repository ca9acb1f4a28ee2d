--------------------------- MODULE CoolingProofs ---------------------------
(***************************************************************************)
(* Theorems about Cooling, for any number of loops, backends and drive     *)
(* levels.                                                                 *)
(*                                                                         *)
(* For any number of callers, with or without failing transfers: the       *)
(* handle CoolerOn reports names a running loop, no loop is orphaned, and  *)
(* an enabled cooler never goes quietly off.  They follow from one         *)
(* inductive invariant.  Its heart is that a running loop is always owned: *)
(* by the Camera's handle, or by exactly the call that took the handle and *)
(* is waiting for the loop to end.                                         *)
(*                                                                         *)
(* For one caller, ownership says more: at most one thread is inside       *)
(* SetTECPower.  From that follow what the write cache promises, that      *)
(* turning regulation off leaves no drive, and that a driven TEC is        *)
(* fanned, under the failures each of them survives.                       *)
(***************************************************************************)
EXTENDS Cooling, TLAPS

-----------------------------------------------------------------------------
(* The inductive invariant *)

Taking     == {"dis_cancel", "dis_join"}    \* the call owns the loop it stops
Switching  == {"dis_cancel", "dis_join", "dis_check", "dis_zero", "en_start"}
CallerRets == {"idle", "en_start", "close_zero", "close"}
LoopRets   == {"tick", "retire"}

LifeTypes ==
  /\ started \in 0 .. MaxLoops /\ cooler \in 0 .. started
  /\ cancelled \subseteq 1 .. started
  /\ own \in [Callers -> 0 .. started]
  /\ op \in [Callers -> AllOps \cup {"none"}]
  /\ DOMAIN pc = Threads /\ DOMAIN ret = Threads

\* Callers and loops keep to labels of their own, and SetTECPower returns there.
LabelsKept ==
  /\ \A t \in Callers : /\ pc[t] \in CallerLabels \cup PowerLabels
                        /\ pc[t] \in PowerLabels => ret[t] \in CallerRets
  /\ \A l \in Loops   : /\ pc[l] \in LoopLabels \cup PowerLabels
                        /\ pc[l] \in PowerLabels => ret[l] \in LoopRets
                        /\ pc[l] = "unborn" <=> l > started

Owner(t, l) == pc[t] \in Taking /\ own[t] = l

\* The call that stops a loop owns one the Camera has let go of.
TakenAway == \A t \in Callers : pc[t] \in Taking => own[t] # NoLoop /\ own[t] # cooler

LoopsOwned == \A l \in Loops : Live(l) => l = cooler \/ \E t \in Callers : Owner(t, l)

\* An EnableCooling on another backend is between its two critical sections.
SwitchingOver(t) ==
  op[t] = "enable" /\ (pc[t] \in Switching \/ (pc[t] \in PowerLabels /\ ret[t] = "en_start"))

WantKept == wanted => cooler # NoLoop \/ coolFault \/ \E t \in Callers : SwitchingOver(t)

LifeInv ==
  LifeTypes /\ LabelsKept /\ CoolerOnIsTrue /\ TakenAway /\ LoopsOwned /\ WantKept

lifeVars == <<cooler, coolFault, started, cancelled, own, wanted>>

\* Callers are not loops.
LEMMA Kinds == \A t \in Callers : t \in Threads /\ t \notin Loops
BY CoolingAssumption DEF CoolingAssumption, Threads

\* The sets of labels are disjoint where the argument needs them to be.
LEMMA Disjoint ==
  /\ Taking \subseteq Switching /\ Switching \subseteq CallerLabels
  /\ CallerLabels \cap PowerLabels = {} /\ LoopLabels \cap PowerLabels = {}
  /\ CallerRets \subseteq CallerLabels \ Taking
  /\ LoopRets \subseteq LoopLabels \ {"unborn", "done"}
  /\ "unborn" \notin PowerLabels /\ "done" \notin PowerLabels /\ "idle" \notin Switching
BY DEF Taking, Switching, CallerLabels, PowerLabels, LoopLabels, CallerRets, LoopRets

\* In the state a Camera is opened in, no loop has been started.
LEMMA InitLife == Init => LifeInv
<1> SUFFICES ASSUME Init PROVE LifeInv
  OBVIOUS
<1> USE Kinds DEF Init
<1>1. LifeTypes
  BY CoolingAssumption DEF CoolingAssumption, LifeTypes, NoLoop
<1>2. LabelsKept
  <2>1. \A l \in Loops : l > 0 /\ l \in Threads
    BY CoolingAssumption DEF CoolingAssumption, Loops, Threads
  <2>2. \A t \in Callers : pc[t] = "idle"
    OBVIOUS
  <2>3. \A l \in Loops : pc[l] = "unborn" /\ l > started
    BY <2>1
  <2> QED BY <2>2, <2>3 DEF LabelsKept, CallerLabels, PowerLabels, LoopLabels
<1>3. CoolerOnIsTrue /\ TakenAway /\ WantKept
  BY DEF CoolerOnIsTrue, TakenAway, WantKept, Taking, Threads
<1>4. LoopsOwned
  BY DEF LoopsOwned, Live, Threads
<1> QED BY <1>1, <1>2, <1>3, <1>4 DEF LifeInv

-----------------------------------------------------------------------------
(* Steps that leave the loop's handle and owners alone *)

\* A caller's step that neither takes nor releases a loop.
LEMMA CallerQuietly ==
  ASSUME LifeInv, NEW t \in Callers, NEW from, NEW to, Goto(t, from, to),
         from \notin Taking, to \in (CallerLabels \cup PowerLabels) \ Taking,
         UNCHANGED lifeVars,
         op' \in [Callers -> AllOps \cup {"none"}], DOMAIN ret' = Threads,
         \A u \in Callers \ {t} : op'[u] = op[u],
         \A u \in Threads \ {t} : ret'[u] = ret[u],
         to \in PowerLabels => ret'[t] \in CallerRets,
         SwitchingOver(t) => SwitchingOver(t)'
  PROVE  LifeInv'
<1> USE Kinds DEF lifeVars, LifeInv
<1>1. /\ \A u \in Threads \ {t} : pc'[u] = pc[u]
      /\ pc[t] = from /\ pc'[t] = to /\ DOMAIN pc' = Threads
  BY DEF Goto, LifeTypes
<1>2. LifeTypes'
  BY <1>1 DEF LifeTypes
<1>3. LabelsKept'
  BY <1>1 DEF LabelsKept, Threads
<1>4. CoolerOnIsTrue'
  <2> SUFFICES ASSUME cooler # NoLoop PROVE Live(cooler)' /\ cooler' \notin cancelled'
    BY DEF CoolerOnIsTrue
  <2>1. cooler \in Loops
    BY CoolingAssumption DEF CoolingAssumption, LifeTypes, Loops, NoLoop
  <2> QED BY <1>1, <2>1 DEF CoolerOnIsTrue, Live, Threads
<1>5. TakenAway'
  BY <1>1 DEF TakenAway, Threads
<1>6. LoopsOwned'
  BY <1>1 DEF LoopsOwned, Live, Owner, Threads
<1>7. WantKept'
  <2>1. \A u \in Callers \ {t} : SwitchingOver(u) => SwitchingOver(u)'
    BY <1>1 DEF SwitchingOver
  <2> QED BY <2>1 DEF WantKept
<1> QED BY <1>2, <1>3, <1>4, <1>5, <1>6, <1>7

\* A loop's step that leaves it running.
LEMMA LoopQuietly ==
  ASSUME LifeInv, NEW l \in Loops, NEW from, NEW to, Goto(l, from, to),
         from \notin {"unborn", "done"},
         to \in (LoopLabels \cup PowerLabels) \ {"unborn", "done"},
         UNCHANGED lifeVars, UNCHANGED op, DOMAIN ret' = Threads,
         \A u \in Threads \ {l} : ret'[u] = ret[u],
         to \in PowerLabels => ret'[l] \in LoopRets
  PROVE  LifeInv'
<1> USE Kinds DEF lifeVars, LifeInv
<1>1. /\ \A u \in Threads \ {l} : pc'[u] = pc[u]
      /\ pc[l] = from /\ pc'[l] = to /\ DOMAIN pc' = Threads
  BY DEF Goto, LifeTypes, Threads
<1>2. LifeTypes'
  BY <1>1 DEF LifeTypes
<1>3. LabelsKept'
  BY <1>1 DEF LabelsKept, Threads
<1>4. CoolerOnIsTrue'
  <2> SUFFICES ASSUME cooler # NoLoop PROVE Live(cooler)' /\ cooler' \notin cancelled'
    BY DEF CoolerOnIsTrue
  <2>1. cooler \in Loops
    BY CoolingAssumption DEF CoolingAssumption, LifeTypes, Loops, NoLoop
  <2> QED BY <1>1, <2>1 DEF CoolerOnIsTrue, Live, Threads
<1>5. TakenAway'
  BY <1>1 DEF TakenAway
<1>6. LoopsOwned'
  BY <1>1 DEF LoopsOwned, Live, Owner, Threads
<1>7. WantKept'
  <2>1. \A u \in Callers : SwitchingOver(u) => SwitchingOver(u)'
    BY <1>1 DEF SwitchingOver
  <2> QED BY <2>1 DEF WantKept
<1> QED BY <1>2, <1>3, <1>4, <1>5, <1>6, <1>7

\* Every step of SetTECPower stays in it or returns.
LEMMA PowerGoes ==
  ASSUME NEW t \in Threads, SetTECPower(t)
  PROVE  /\ UNCHANGED <<lifeVars, op, ret>>
         /\ pc[t] \in PowerLabels
         /\ \E to \in PowerLabels \cup {ret[t]} : Goto(t, pc[t], to)
<1> USE DEF lifeVars, Goto, PowerLabels, camVars, loopVars, locVars, histVars
<1>1. CASE FanSkip(t) \/ FanRead(t) \/ FanWrite(t) \/ FanMark(t)
  BY <1>1 DEF FanSkip, FanRead, FanWrite, FanMark
<1>2. CASE FanFails(t)
  BY <1>2 DEF FanFails
<1>3. CASE LevelSkip(t) \/ LevelWrite(t) \/ LevelMark(t)
  BY <1>3 DEF LevelSkip, LevelWrite, LevelMark
<1>4. CASE LevelFails(t)
  BY <1>4 DEF LevelFails
<1> QED BY <1>1, <1>2, <1>3, <1>4 DEF SetTECPower

\* SetTECPower, called by a caller.
LEMMA CallerPower == ASSUME LifeInv, NEW t \in Callers, SetTECPower(t) PROVE LifeInv'
<1>1. UNCHANGED <<lifeVars, op, ret>> /\ pc[t] \in PowerLabels
  BY Kinds, PowerGoes
<1>2. PICK to \in PowerLabels \cup {ret[t]} : Goto(t, pc[t], to)
  BY Kinds, PowerGoes
<1>3. ret[t] \in CallerRets /\ DOMAIN ret = Threads /\ op \in [Callers -> AllOps \cup {"none"}]
  BY <1>1 DEF LifeInv, LabelsKept, LifeTypes
<1>4. pc[t] \notin Taking /\ to \in (CallerLabels \cup PowerLabels) \ Taking
  BY <1>1, <1>2, <1>3, Disjoint
<1>5. SwitchingOver(t) => SwitchingOver(t)'
  <2>1. pc'[t] = to
    BY <1>2, Kinds DEF Goto, LifeInv, LifeTypes
  <2>2. ret'[t] = ret[t] /\ op'[t] = op[t]
    BY <1>1
  <2>3. pc[t] \notin Switching /\ "en_start" \in Switching
    BY <1>1, Disjoint DEF Switching
  <2> QED BY <1>2, <2>1, <2>2, <2>3 DEF SwitchingOver
<1> QED BY <1>1, <1>2, <1>3, <1>4, <1>5, CallerQuietly

\* SetTECPower, called by a loop.
LEMMA LoopPower == ASSUME LifeInv, NEW l \in Loops, SetTECPower(l) PROVE LifeInv'
<1> l \in Threads
  BY DEF Threads
<1>1. UNCHANGED <<lifeVars, op, ret>> /\ pc[l] \in PowerLabels
  BY PowerGoes
<1>2. PICK to \in PowerLabels \cup {ret[l]} : Goto(l, pc[l], to)
  BY PowerGoes
<1>3. ret[l] \in LoopRets /\ DOMAIN ret = Threads
  BY <1>1 DEF LifeInv, LabelsKept, LifeTypes
<1>4. pc[l] \notin {"unborn", "done"} /\ to \in (LoopLabels \cup PowerLabels) \ {"unborn", "done"}
  BY <1>1, <1>2, <1>3, Disjoint
<1> QED BY <1>1, <1>2, <1>3, <1>4, LoopQuietly

\* Entering a call takes nothing yet.
LEMMA CallLife == ASSUME LifeInv, NEW t \in Callers, NEW o \in Ops, Call(t, o) PROVE LifeInv'
<1> DEFINE to == CASE o = "enable"  -> "en_check"
                   [] o = "disable" -> "dis_take"
                   [] o = "close"   -> "dis_take"
                   [] o = "heat"    -> "heat_read"
                   [] OTHER         -> "reset_inval"
<1>1. /\ Goto(t, "idle", to)
      /\ op' = [op EXCEPT ![t] = o]
      /\ UNCHANGED <<lifeVars, ret>>
  BY DEF Call, lifeVars, camVars, loopVars, histVars
<1>2. to \in CallerLabels \ Taking
  BY DEF CallerLabels, Taking
<1> HIDE DEF to
<1>3. op' \in [Callers -> AllOps \cup {"none"}] /\ \A u \in Callers \ {t} : op'[u] = op[u]
  BY <1>1, CoolingAssumption DEF CoolingAssumption, LifeInv, LifeTypes
<1>4. DOMAIN ret' = Threads
  BY <1>1 DEF LifeInv, LifeTypes
<1>5. ~SwitchingOver(t)
  BY <1>1 DEF Goto, SwitchingOver, Switching, PowerLabels
<1>6. to \notin PowerLabels /\ "idle" \notin Taking
  BY <1>2, Disjoint
<1> QED BY <1>1, <1>2, <1>3, <1>4, <1>5, <1>6, CallerQuietly

\* The other steps that take and release no loop.
LEMMA CallerRest ==
  ASSUME LifeInv, NEW t \in Callers,
         \/ EnableCheck(t) \/ EnableTarget(t) \/ DisableCheck(t) \/ DisableZero(t)
         \/ CloseZero(t) \/ CloseTransport(t) \/ HeatRead(t) \/ HeatWrite(t)
         \/ HeatFails(t) \/ ResetInvalidate(t) \/ ResetDevice(t)
  PROVE  LifeInv'
<1> DEFINE Quietly(from, to) ==
      /\ Goto(t, from, to) /\ UNCHANGED <<lifeVars, op>>
      /\ ret' = ret \/ \E b \in CallerRets : ret' = [ret EXCEPT ![t] = b]
<1>1. ASSUME NEW from, NEW to, Quietly(from, to), from \notin Taking,
             to \in (CallerLabels \cup PowerLabels) \ Taking,
             to \in PowerLabels => ret'[t] \in CallerRets,
             SwitchingOver(t) => SwitchingOver(t)'
      PROVE  LifeInv'
  <2>1. op' \in [Callers -> AllOps \cup {"none"}] /\ DOMAIN ret' = Threads
    BY <1>1 DEF LifeInv, LifeTypes
  <2>2. \A u \in Threads \ {t} : ret'[u] = ret[u]
    BY <1>1 DEF LifeInv, LifeTypes
  <2> QED BY <1>1, <2>1, <2>2, CallerQuietly
<1> HIDE DEF Quietly
<1>2. ASSUME NEW from, NEW to, Goto(t, from, to), UNCHANGED <<lifeVars, op, ret>>,
             from \in CallerLabels \ Switching, to \in CallerLabels \ Taking
      PROVE  LifeInv'
  <2>1. Quietly(from, to) /\ from \notin Taking
    BY <1>2, Disjoint DEF Quietly
  <2>2. to \notin PowerLabels /\ from \notin PowerLabels
    BY <1>2, Disjoint
  <2>3. ~SwitchingOver(t)
    BY <1>2, <2>2 DEF Goto, SwitchingOver
  <2> QED BY <1>1, <1>2, <2>1, <2>2, <2>3
<1>3. AfterDisable(t) \in CallerRets \cap {"idle", "en_start", "close_zero"}
  BY DEF AfterDisable, CallerRets
<1>4. CASE EnableCheck(t)
  <2>1. PICK to \in {"dis_take", "en_start"} : Goto(t, "en_check", to)
    BY <1>4 DEF EnableCheck
  <2>2. UNCHANGED <<lifeVars, op, ret>>
    BY <1>4 DEF EnableCheck, lifeVars, camVars, loopVars, histVars
  <2> QED BY <1>2, <2>1, <2>2 DEF CallerLabels, Switching, Taking
<1>5. CASE EnableTarget(t)
  <2>1. Goto(t, "en_target", "idle") /\ UNCHANGED <<lifeVars, op, ret>>
    BY <1>5 DEF EnableTarget, lifeVars, camVars, locVars, histVars
  <2> QED BY <1>2, <2>1 DEF CallerLabels, Switching, Taking
<1>6. CASE DisableCheck(t)
  <2>1. PICK to \in {"dis_zero", AfterDisable(t)} : Goto(t, "dis_check", to)
    BY <1>6 DEF DisableCheck
  <2>2. UNCHANGED <<lifeVars, op, ret>>
    BY <1>6 DEF DisableCheck, lifeVars, camVars, loopVars, locVars, histVars
  <2>3. /\ to \in CallerLabels \ Taking /\ "dis_check" \notin Taking
        /\ op[t] = "enable" => to \in Switching
    BY <1>3 DEF CallerLabels, Taking, Switching, AfterDisable
  <2>4. SwitchingOver(t) => SwitchingOver(t)'
    BY <2>1, <2>2, <2>3, Kinds DEF SwitchingOver, Goto, LifeInv, LifeTypes
  <2> QED BY <1>1, <2>1, <2>2, <2>3, <2>4, Disjoint DEF Quietly
<1>7. CASE DisableZero(t)
  <2>1. Quietly("dis_zero", "fan")
    BY <1>3, <1>7 DEF Quietly, DisableZero, Invoke, lifeVars, camVars, loopVars, histVars
  <2>2. ret'[t] = AfterDisable(t) /\ pc'[t] = "fan" /\ op' = op
    BY <1>7, Kinds DEF DisableZero, Invoke, Goto, LifeInv, LifeTypes
  <2>3. SwitchingOver(t) => SwitchingOver(t)'
    BY <2>2 DEF SwitchingOver, AfterDisable, PowerLabels
  <2> QED BY <1>1, <1>3, <2>1, <2>2, <2>3 DEF Taking, PowerLabels
<1>8. CASE CloseZero(t)
  <2>1. Quietly("close_zero", "fan")
    BY <1>8 DEF Quietly, CloseZero, Invoke, CallerRets, lifeVars, camVars, loopVars, histVars
  <2>2. ret'[t] = "close"
    BY <1>8, Kinds DEF CloseZero, Invoke, LifeInv, LifeTypes
  <2>3. ~SwitchingOver(t)
    BY <1>8 DEF CloseZero, Invoke, Goto, SwitchingOver, Switching, PowerLabels
  <2> QED BY <1>1, <2>1, <2>2, <2>3 DEF Taking, PowerLabels, CallerRets
<1>9. CASE CloseTransport(t)
  <2>1. Goto(t, "close", "idle") /\ UNCHANGED <<lifeVars, op, ret>>
    BY <1>9 DEF CloseTransport, lifeVars, camVars, loopVars, locVars, histVars
  <2> QED BY <1>2, <2>1 DEF CallerLabels, Switching, Taking
<1>10. CASE HeatRead(t) \/ HeatWrite(t) \/ HeatFails(t)
  <2>1. UNCHANGED <<lifeVars, op, ret>>
    BY <1>10 DEF HeatRead, HeatWrite, HeatFails, lifeVars, camVars, loopVars, locVars, histVars
  <2>2. PICK from \in {"heat_read", "heat_write"}, to \in {"heat_write", "idle"} :
             Goto(t, from, to)
    BY <1>10 DEF HeatRead, HeatWrite, HeatFails
  <2> QED BY <1>2, <2>1, <2>2 DEF CallerLabels, Switching, Taking
<1>11. CASE ResetInvalidate(t) \/ ResetDevice(t)
  <2>1. UNCHANGED <<lifeVars, op, ret>>
    BY <1>11 DEF ResetInvalidate, ResetDevice, lifeVars, camVars, loopVars, locVars, histVars
  <2>2. PICK from \in {"reset_inval", "reset"}, to \in {"reset", "idle"} : Goto(t, from, to)
    BY <1>11 DEF ResetInvalidate, ResetDevice
  <2> QED BY <1>2, <2>1, <2>2 DEF CallerLabels, Switching, Taking
<1> QED BY <1>4, <1>5, <1>6, <1>7, <1>8, <1>9, <1>10, <1>11

-----------------------------------------------------------------------------
(* Starting a loop, taking its handle, stopping it *)

\* Retargeting the running loop.
LEMMA EnableStartLife == ASSUME LifeInv, NEW t \in Callers, EnableStart(t) PROVE LifeInv'
<1> USE Kinds DEF LifeInv, EnableStart, Goto, loopVars
<1>1. /\ DOMAIN pc' = Threads /\ \A u \in Threads \ {t} : pc'[u] = pc[u]
      /\ pc[t] = "en_start" /\ pc'[t] = "en_target"
      /\ "en_start" \notin Taking /\ "en_target" \notin Taking
      /\ \A u \in Callers \ {t} : own'[u] = own[u]
      /\ cooler # NoLoop /\ cooler' = cooler
  BY DEF LifeTypes, Taking
<1>2. LifeTypes'
  BY <1>1 DEF LifeTypes
<1>3. LabelsKept'
  BY <1>1 DEF LabelsKept, CallerLabels, PowerLabels, Threads
<1>4. CoolerOnIsTrue'
  <2>1. cooler \in Loops
    BY <1>1, CoolingAssumption DEF CoolingAssumption, LifeTypes, Loops, NoLoop
  <2> QED BY <1>1, <2>1 DEF CoolerOnIsTrue, Live, Threads
<1>5. TakenAway' /\ WantKept'
  BY <1>1 DEF TakenAway, WantKept
<1>6. LoopsOwned'
  BY <1>1 DEF LoopsOwned, Live, Owner, Threads
<1> QED BY <1>2, <1>3, <1>4, <1>5, <1>6

\* Starting a loop: its number is new, so nobody has cancelled or taken it.
LEMMA EnableFreshLife == ASSUME LifeInv, NEW t \in Callers, EnableFresh(t) PROVE LifeInv'
<1> DEFINE l == started + 1
<1> USE Kinds DEF LifeInv, EnableFresh
<1>1. l \in Loops /\ l \in Threads /\ l # NoLoop /\ l # t
  BY CoolingAssumption DEF CoolingAssumption, LifeTypes, Loops, Threads, NoLoop
<1>2. /\ cooler = NoLoop /\ cooler' = l /\ started' = l /\ cancelled' = cancelled
      /\ own' = [own EXCEPT ![t] = l] /\ op' = op /\ ret' = ret /\ wanted' = TRUE
  OBVIOUS
<1>3. /\ DOMAIN pc' = Threads /\ \A u \in Threads \ {t, l} : pc'[u] = pc[u]
      /\ pc[t] = "en_start" /\ pc'[t] = "en_target" /\ pc'[l] = "tick"
      /\ "en_start" \notin Taking /\ "en_target" \notin Taking
  BY <1>1 DEF LifeTypes, Taking
<1> HIDE DEF EnableFresh
<1>4. LifeTypes'
  <2>1. started \in Nat /\ l \in 0 .. MaxLoops /\ l \in 0 .. l
    BY <1>1, CoolingAssumption DEF CoolingAssumption, LifeTypes, Loops
  <2>2. 1 .. started \subseteq 1 .. l /\ 0 .. started \subseteq 0 .. l
    BY <2>1
  <2> HIDE DEF l
  <2>3. own' \in [Callers -> 0 .. l] /\ cancelled' \subseteq 1 .. l
    BY <1>2, <2>1, <2>2 DEF LifeTypes
  <2> QED BY <1>2, <1>3, <2>1, <2>3 DEF LifeTypes
<1>5. LabelsKept'
  <2>1. \A k \in Loops \ {l} : k > l <=> k > started
    BY CoolingAssumption DEF CoolingAssumption, LifeTypes, Loops
  <2>2. ~(l > l) /\ "tick" \in LoopLabels \ (PowerLabels \cup {"unborn"})
    BY DEF LoopLabels, PowerLabels, LifeTypes
  <2>3. "en_target" \in CallerLabels \ PowerLabels
    BY DEF CallerLabels, PowerLabels
  <2> HIDE DEF l
  <2>4. \A u \in Callers : u # l /\ u \in Threads
    BY <1>1
  <2>5. \A k \in Loops : k # t /\ k \in Threads
    BY DEF Threads
  <2> QED BY <1>2, <1>3, <2>1, <2>2, <2>3, <2>4, <2>5 DEF LabelsKept
<1>6. CoolerOnIsTrue'
  <2>1. l \notin cancelled
    BY DEF LifeTypes
  <2> HIDE DEF l
  <2> QED BY <1>2, <1>3, <2>1 DEF CoolerOnIsTrue, Live
<1>7. TakenAway'
  <2>1. \A u \in Callers : own[u] # l
    BY DEF LifeTypes
  <2> HIDE DEF l
  <2>2. \A u \in Callers \ {t} : pc'[u] = pc[u] /\ own'[u] = own[u]
    BY <1>1, <1>2, <1>3 DEF LifeTypes
  <2> QED BY <1>1, <1>2, <1>3, <2>1, <2>2 DEF TakenAway
<1>8. LoopsOwned'
  <2> HIDE DEF l
  <2>1. \A u \in Callers \ {t} : pc'[u] = pc[u] /\ own'[u] = own[u]
    BY <1>1, <1>2, <1>3 DEF LifeTypes
  <2>2. \A k \in Loops \ {l} : pc'[k] = pc[k]
    BY <1>3 DEF Threads
  <2>3. \A k \in Loops : k # NoLoop
    BY CoolingAssumption DEF CoolingAssumption, Loops, NoLoop
  <2> QED BY <1>2, <1>3, <2>1, <2>2, <2>3 DEF LoopsOwned, Live, Owner
<1>9. WantKept'
  BY <1>1, <1>2 DEF WantKept
<1> QED BY <1>4, <1>5, <1>6, <1>7, <1>8, <1>9

\* Taking the handle hands the loop over from the Camera to the call.
LEMMA TakeLife == ASSUME LifeInv, NEW t \in Callers, DisableTake(t) PROVE LifeInv'
<1> DEFINE to == IF cooler = NoLoop THEN AfterDisable(t) ELSE "dis_cancel"
<1> USE Kinds DEF LifeInv
<1>1. /\ Goto(t, "dis_take", to) /\ own' = [own EXCEPT ![t] = cooler] /\ cooler' = NoLoop
      /\ wanted' = (wanted /\ op[t] = "enable")
      /\ UNCHANGED <<coolFault, started, cancelled, op, ret>>
  BY DEF DisableTake, loopVars
<1>2. /\ DOMAIN pc' = Threads /\ \A u \in Threads \ {t} : pc'[u] = pc[u]
      /\ pc[t] = "dis_take" /\ pc'[t] = to /\ "dis_take" \notin Taking
      /\ own'[t] = cooler /\ \A u \in Callers \ {t} : own'[u] = own[u]
  BY <1>1 DEF Goto, LifeTypes, Taking
<1>3. /\ to \in CallerLabels \ PowerLabels
      /\ to \in Taking <=> cooler # NoLoop
      /\ op[t] = "enable" => to \in Switching
  BY DEF AfterDisable, CallerLabels, PowerLabels, Taking, Switching
<1> HIDE DEF to
<1>4. LifeTypes'
  BY <1>1, <1>2 DEF LifeTypes, NoLoop
<1>5. LabelsKept'
  BY <1>1, <1>2, <1>3 DEF LabelsKept, Threads
<1>6. CoolerOnIsTrue'
  BY <1>1 DEF CoolerOnIsTrue
<1>7. TakenAway'
  BY <1>1, <1>2, <1>3 DEF TakenAway
<1>8. LoopsOwned'
  <2> SUFFICES ASSUME NEW l \in Loops, Live(l)'
               PROVE  \E u \in Callers : Owner(u, l)'
    BY DEF LoopsOwned
  <2>1. Live(l) /\ l # NoLoop
    BY <1>2, CoolingAssumption DEF CoolingAssumption, Live, Loops, Threads, NoLoop
  <2>2. CASE l = cooler
    BY <1>2, <1>3, <2>1, <2>2 DEF Owner
  <2>3. CASE l # cooler
    <3>1. PICK u \in Callers : Owner(u, l)
      BY <2>1, <2>3 DEF LoopsOwned
    <3>2. u # t
      BY <1>2, <3>1 DEF Owner
    <3> QED BY <1>2, <3>1, <3>2 DEF Owner
  <2> QED BY <2>2, <2>3
<1>9. WantKept'
  <2>1. wanted' => SwitchingOver(t)'
    BY <1>1, <1>2, <1>3 DEF SwitchingOver
  <2> QED BY <2>1 DEF WantKept
<1> QED BY <1>4, <1>5, <1>6, <1>7, <1>8, <1>9

\* Cancelling the loop the call has taken.
LEMMA CancelLife == ASSUME LifeInv, NEW t \in Callers, DisableCancel(t) PROVE LifeInv'
<1> USE Kinds DEF LifeInv
<1>1. /\ Goto(t, "dis_cancel", "dis_join") /\ cancelled' = cancelled \cup {own[t]}
      /\ UNCHANGED <<cooler, coolFault, started, own, op, ret, wanted>>
  BY DEF DisableCancel, camVars, locVars, histVars
<1>2. /\ DOMAIN pc' = Threads /\ \A u \in Threads \ {t} : pc'[u] = pc[u]
      /\ pc[t] = "dis_cancel" /\ pc'[t] = "dis_join"
      /\ {"dis_cancel", "dis_join"} \subseteq Taking
  BY <1>1 DEF Goto, LifeTypes, Taking
<1>3. own[t] # NoLoop /\ own[t] # cooler
  BY <1>2 DEF TakenAway
<1>4. LifeTypes'
  <2>1. own[t] \in 1 .. started
    BY <1>3 DEF LifeTypes, NoLoop
  <2> QED BY <1>1, <1>2, <2>1 DEF LifeTypes
<1>5. LabelsKept'
  BY <1>1, <1>2 DEF LabelsKept, CallerLabels, PowerLabels, Threads
<1>6. CoolerOnIsTrue'
  <2> SUFFICES ASSUME cooler # NoLoop PROVE Live(cooler)' /\ cooler' \notin cancelled'
    BY <1>1 DEF CoolerOnIsTrue
  <2>1. cooler \in Loops
    BY CoolingAssumption DEF CoolingAssumption, LifeTypes, Loops, NoLoop
  <2> QED BY <1>1, <1>2, <1>3, <2>1 DEF CoolerOnIsTrue, Live, Threads
<1>7. TakenAway' /\ LoopsOwned'
  BY <1>1, <1>2 DEF TakenAway, LoopsOwned, Live, Owner, Threads
<1>8. WantKept'
  <2>1. \A u \in Callers : SwitchingOver(u) => SwitchingOver(u)'
    BY <1>1, <1>2 DEF SwitchingOver, Switching, PowerLabels
  <2> QED BY <1>1, <2>1 DEF WantKept
<1> QED BY <1>4, <1>5, <1>6, <1>7, <1>8

\* The join ends the ownership of a loop that is done.
LEMMA JoinLife == ASSUME LifeInv, NEW t \in Callers, DisableJoin(t) PROVE LifeInv'
<1> USE Kinds DEF LifeInv
<1>1. /\ Goto(t, "dis_join", "dis_check") /\ pc[own[t]] = "done"
      /\ UNCHANGED <<lifeVars, op, ret>>
  BY DEF DisableJoin, lifeVars, camVars, loopVars, locVars, histVars
<1>2. /\ DOMAIN pc' = Threads /\ \A u \in Threads \ {t} : pc'[u] = pc[u]
      /\ pc[t] = "dis_join" /\ pc'[t] = "dis_check" /\ "dis_check" \notin Taking
  BY <1>1 DEF Goto, LifeTypes, Taking
<1>3. LifeTypes'
  BY <1>1, <1>2 DEF LifeTypes, lifeVars
<1>4. LabelsKept'
  BY <1>1, <1>2 DEF LabelsKept, CallerLabels, PowerLabels, Threads, lifeVars
<1>5. CoolerOnIsTrue'
  <2> SUFFICES ASSUME cooler # NoLoop PROVE Live(cooler)' /\ cooler' \notin cancelled'
    BY <1>1 DEF CoolerOnIsTrue, lifeVars
  <2>1. cooler \in Loops
    BY CoolingAssumption DEF CoolingAssumption, LifeTypes, Loops, NoLoop
  <2> QED BY <1>1, <1>2, <2>1 DEF CoolerOnIsTrue, Live, Threads, lifeVars
<1>6. TakenAway'
  BY <1>1, <1>2 DEF TakenAway, lifeVars
<1>7. LoopsOwned'
  <2> SUFFICES ASSUME NEW l \in Loops, Live(l)', l # cooler'
               PROVE  \E u \in Callers : Owner(u, l)'
    BY DEF LoopsOwned
  <2>1. Live(l) /\ l # cooler
    BY <1>1, <1>2 DEF Live, Threads, lifeVars
  <2>2. PICK u \in Callers : Owner(u, l)
    BY <2>1 DEF LoopsOwned
  <2>3. u # t
    BY <1>1, <2>1, <2>2 DEF Owner, Live
  <2> QED BY <1>1, <1>2, <2>2, <2>3 DEF Owner, lifeVars
<1>8. WantKept'
  <2>1. \A u \in Callers : SwitchingOver(u) => SwitchingOver(u)'
    BY <1>1, <1>2 DEF SwitchingOver, Switching, PowerLabels
  <2> QED BY <1>1, <2>1 DEF WantKept, lifeVars
<1> QED BY <1>3, <1>4, <1>5, <1>6, <1>7, <1>8

-----------------------------------------------------------------------------
(* The regulation loop *)

\* A loop that ends is not the one the Camera holds afterwards.
LEMMA LoopEnds ==
  ASSUME LifeInv, NEW l \in Loops, NEW from, Goto(l, from, "done"), from # "unborn",
         UNCHANGED <<started, cancelled, own, wanted, op, ret>>,
         \/ cooler' = cooler /\ cooler # l
         \/ cooler' = NoLoop /\ cooler = l /\ coolFault',
         coolFault => coolFault'
  PROVE  LifeInv'
<1> USE Kinds DEF LifeInv
<1>1. /\ l \in Threads /\ l \notin Callers
      /\ \A u \in Threads \ {l} : pc'[u] = pc[u]
      /\ pc[l] = from /\ pc'[l] = "done" /\ DOMAIN pc' = Threads
  BY DEF Goto, LifeTypes, Threads
<1>2. LifeTypes'
  BY <1>1 DEF LifeTypes, NoLoop
<1>3. LabelsKept'
  <2>1. pc[l] # "unborn" /\ "done" \in LoopLabels \ PowerLabels
    BY <1>1 DEF LoopLabels, PowerLabels
  <2> QED BY <1>1, <2>1 DEF LabelsKept, Threads
<1>4. CoolerOnIsTrue'
  <2> SUFFICES ASSUME cooler' # NoLoop PROVE Live(cooler)' /\ cooler' \notin cancelled'
    BY DEF CoolerOnIsTrue
  <2>1. cooler' = cooler /\ cooler # l /\ cooler \in Loops
    BY CoolingAssumption DEF CoolingAssumption, LifeTypes, Loops, NoLoop
  <2> QED BY <1>1, <2>1 DEF CoolerOnIsTrue, Live, Threads
<1>5. TakenAway'
  BY <1>1 DEF TakenAway, Threads
<1>6. LoopsOwned'
  <2> SUFFICES ASSUME NEW k \in Loops, Live(k)', k # cooler'
               PROVE  \E u \in Callers : Owner(u, k)'
    BY DEF LoopsOwned
  <2>1. k # l /\ Live(k)
    BY <1>1 DEF Live, Threads
  <2>2. k # cooler
    BY <2>1
  <2>3. PICK u \in Callers : Owner(u, k)
    BY <2>1, <2>2 DEF LoopsOwned
  <2> QED BY <1>1, <2>3 DEF Owner
<1>7. WantKept'
  <2>1. \A u \in Callers : SwitchingOver(u) => SwitchingOver(u)'
    BY <1>1 DEF SwitchingOver
  <2> QED BY <2>1 DEF WantKept
<1> QED BY <1>2, <1>3, <1>4, <1>5, <1>6, <1>7

\* Every step of a regulation loop.
LEMMA LoopLife == ASSUME LifeInv, NEW l \in Loops, LoopStep(l) PROVE LifeInv'
<1> USE DEF lifeVars, camVars, loopVars, locVars, histVars
<1>1. l \in cancelled => l # cooler
  BY CoolingAssumption DEF CoolingAssumption, LifeInv, CoolerOnIsTrue, Loops, NoLoop
<1>2. CASE LoopCancelled(l)
  <2>1. Goto(l, "tick", "done") /\ l \in cancelled
        /\ UNCHANGED <<lifeVars, op, ret>>
    BY <1>2 DEF LoopCancelled
  <2> QED BY <1>1, <2>1, LoopEnds
<1>3. CASE StepFails(l) \/ StepSkips(l)
  <2>1. Goto(l, "tick", "tick") /\ UNCHANGED <<lifeVars, op, ret>>
    BY <1>3 DEF StepFails, StepSkips
  <2>2. "tick" \in LoopLabels \ (PowerLabels \cup {"unborn", "done"})
    BY DEF LoopLabels, PowerLabels
  <2> QED BY <2>1, <2>2, LoopQuietly DEF LifeInv, LifeTypes
<1>4. CASE StepDrives(l) \/ GiveUp(l)
  <2>1. PICK back \in LoopRets : ret' = [ret EXCEPT ![l] = back]
    BY <1>4 DEF StepDrives, GiveUp, Invoke, LoopRets
  <2>2. Goto(l, "tick", "fan") /\ UNCHANGED <<lifeVars, op>>
    BY <1>4 DEF StepDrives, GiveUp, Invoke
  <2>3. /\ DOMAIN ret' = Threads /\ ret'[l] \in LoopRets
        /\ \A u \in Threads \ {l} : ret'[u] = ret[u]
    BY <2>1 DEF LifeInv, LifeTypes, Threads
  <2>4. "fan" \in PowerLabels
    BY DEF PowerLabels
  <2> QED BY <2>2, <2>3, <2>4, LoopQuietly, Disjoint
<1>5. CASE RetireCheck(l)
  <2>1. UNCHANGED <<lifeVars, op, ret>>
    BY <1>5 DEF RetireCheck
  <2>2. CASE l \in cancelled
    <3>1. Goto(l, "retire", "done")
      BY <1>5, <2>2 DEF RetireCheck
    <3> QED BY <1>1, <2>1, <2>2, <3>1, LoopEnds
  <2>3. CASE l \notin cancelled
    <3>1. Goto(l, "retire", "retire_lock")
      BY <1>5, <2>3 DEF RetireCheck
    <3>2. "retire_lock" \in LoopLabels \ (PowerLabels \cup {"unborn", "done"})
      BY DEF LoopLabels, PowerLabels
    <3> QED BY <2>1, <3>1, <3>2, LoopQuietly DEF LifeInv, LifeTypes
  <2> QED BY <2>2, <2>3
<1>6. CASE Retire(l)
  <2>1. /\ Goto(l, "retire_lock", "done") /\ UNCHANGED <<started, cancelled, own, wanted, op, ret>>
        /\ cooler' = (IF cooler = l THEN NoLoop ELSE cooler)
        /\ coolFault' = (coolFault \/ cooler = l)
    BY <1>6 DEF Retire
  <2>2. \/ cooler' = cooler /\ cooler # l
        \/ cooler' = NoLoop /\ cooler = l /\ coolFault'
    BY <2>1
  <2> QED BY <2>1, <2>2, LoopEnds
<1>7. CASE SetTECPower(l)
  BY <1>7, LoopPower
<1> QED BY <1>2, <1>3, <1>4, <1>5, <1>6, <1>7 DEF LoopStep

-----------------------------------------------------------------------------
(* The theorems *)

\* Every step of a caller.
LEMMA CallerLife == ASSUME LifeInv, NEW t \in Callers, CallerStep(t) PROVE LifeInv'
<1>1. CASE SetTECPower(t)
  BY <1>1, CallerPower
<1>2. CASE EnableStart(t)
  BY <1>2, EnableStartLife
<1>3. CASE EnableFresh(t)
  BY <1>3, EnableFreshLife
<1>4. CASE DisableTake(t)
  BY <1>4, TakeLife
<1>5. CASE DisableCancel(t)
  BY <1>5, CancelLife
<1>6. CASE DisableJoin(t)
  BY <1>6, JoinLife
<1> QED BY <1>1, <1>2, <1>3, <1>4, <1>5, <1>6, CallerRest DEF CallerStep

\* Losing the device, or nothing at all, changes none of it.
LEMMA StillLife ==
  ASSUME LifeInv, UNCHANGED <<lifeVars, pc, op, ret>>
  PROVE  LifeInv'
BY DEF LifeInv, LifeTypes, LabelsKept, CoolerOnIsTrue, TakenAway, LoopsOwned, WantKept,
       Live, Owner, SwitchingOver, lifeVars

\* Every step of the system keeps the invariant ...
LEMMA NextLife == LifeInv /\ [Next]_vars => LifeInv'
<1> SUFFICES ASSUME LifeInv, [Next]_vars PROVE LifeInv'
  OBVIOUS
<1>1. CASE \E t \in Callers : CallerStep(t)
  BY <1>1, CallerLife
<1>2. CASE \E t \in Callers, o \in Ops : Call(t, o)
  BY <1>2, CallLife
<1>3. CASE \E l \in Loops : LoopStep(l)
  BY <1>3, LoopLife
<1>4. CASE Unplug \/ UNCHANGED vars
  BY <1>4, StillLife
     DEF Unplug, vars, lifeVars, camVars, loopVars, usbVars, locVars, histVars
<1> QED BY <1>1, <1>2, <1>3, <1>4 DEF Next

\* ... so it always holds.
LEMMA LifeAlways == Spec => []LifeInv
BY InitLife, NextLife, PTL DEF Spec

\* A handle never outlives its loop: what CoolerOn reports is a loop that runs.
THEOREM CoolerOnTruthful == Spec => []CoolerOnIsTrue
BY LifeAlways, PTL DEF LifeInv

\* With every call returned, no loop goes on but the one the Camera holds: the
\* loop of a disabled cooler has ended, and a replaced one never runs beside it.
THEOREM NoOrphanLoop == Spec => []OneRegulator
<1>1. LifeInv => OneRegulator
  <2> SUFFICES ASSUME LifeInv, AllIdle, NEW l \in Loops, Live(l) PROVE l = cooler
    BY DEF OneRegulator
  <2>1. \A t \in Callers : ~Owner(t, l)
    BY DEF AllIdle, Owner, Taking
  <2> QED BY <2>1 DEF LifeInv, LoopsOwned
<1> QED BY <1>1, LifeAlways, PTL

\* A cooler enabled and not disabled since regulates or has reported its fault.
THEOREM NeverQuietlyOff == Spec => []EnabledOrFaulted
<1>1. LifeInv => EnabledOrFaulted
  <2> SUFFICES ASSUME LifeInv, AllIdle, wanted PROVE cooler # NoLoop \/ coolFault
    BY DEF EnabledOrFaulted
  <2>1. \A t \in Callers : ~SwitchingOver(t)
    BY Disjoint DEF AllIdle, SwitchingOver, PowerLabels
  <2> QED BY <2>1 DEF LifeInv, WantKept
<1> QED BY <1>1, LifeAlways, PTL

-----------------------------------------------------------------------------
(* Types *)

\* A loop writes a planned level only below the limit of failures.
LimitKept == \A l \in Loops : pc[l] \in PowerLabels /\ ret[l] = "tick" => ~Spent(l)

\* What TypeOK needs to be inductive, beside LifeInv.
TypeInv == TypeOK /\ LimitKept

\* Every label there is.
allLabels == CallerLabels \cup PowerLabels \cup LoopLabels

\* The fields of a Camera as it is opened.
LEMMA InitTypes == Init => TypeInv
<1> SUFFICES ASSUME Init PROVE TypeInv
  OBVIOUS
<1>1. /\ 0 \in Levels /\ NoFlags \in [fan : BOOLEAN, warm : BOOLEAN]
      /\ Attached \in Backends /\ {"idle", "unborn"} \subseteq CallerLabels \cup LoopLabels
  BY CoolingAssumption DEF CoolingAssumption, Levels, NoFlags, CallerLabels, LoopLabels
<1>2. /\ started \in 0 .. MaxLoops /\ cooler \in 0 .. started
      /\ fails \in [Loops -> 0 .. RunMaxConsecFails] /\ cancelled \subseteq 1 .. started
      /\ own \in [Callers -> 0 .. started]
  BY CoolingAssumption DEF CoolingAssumption, Init, NoLoop
<1>3. /\ pc \in [Threads -> CallerLabels \cup PowerLabels \cup LoopLabels]
      /\ lvl \in [Threads -> Levels]
      /\ snap \in [Threads -> [fan : BOOLEAN, warm : BOOLEAN]]
      /\ ret \in [Threads -> {"idle", "en_start", "close_zero", "close", "tick", "retire"}]
  BY <1>1 DEF Init
<1>4. TypeOK
  BY <1>1, <1>2, <1>3 DEF Init, TypeOK
<1>5. LimitKept
  BY Kinds DEF Init, LimitKept, PowerLabels, Threads
<1> QED BY <1>4, <1>5 DEF TypeInv

\* What SetTECPower's steps keep: each stays in it or returns, and counts at
\* most one more failure, of a loop below its limit.
LEMMA TypesPower ==
  ASSUME TypeInv, LifeInv, NEW t \in Threads, SetTECPower(t)
  PROVE  TypeInv'
<1> USE DEF TypeInv
<1>1. UNCHANGED <<lifeVars, op, ret>> /\ pc[t] \in PowerLabels
  BY PowerGoes
<1>2. PICK to \in PowerLabels \cup {ret[t]} : Goto(t, pc[t], to)
  BY PowerGoes
<1>3. to \in PowerLabels \/ (to \in CallerRets \cup LoopRets /\ to \notin PowerLabels)
  BY <1>1, <1>2, Disjoint DEF LifeInv, LabelsKept, Threads
<1>4. /\ UNCHANGED <<thermal, io, on, closed, attached, want, lvl, started>>
      /\ excused' \in BOOLEAN
  BY DEF SetTECPower, FanSkip, FanRead, FanWrite, FanMark, FanFails, LevelSkip, LevelWrite,
         LevelMark, LevelFails, TypeOK, camVars, loopVars, usbVars, locVars, histVars, devVars
<1>5. cache' \in [level : Levels, levelOK : BOOLEAN, fan : BOOLEAN, fanOK : BOOLEAN]
  <2>1. Forgotten \in [level : Levels, levelOK : BOOLEAN, fan : BOOLEAN, fanOK : BOOLEAN]
    BY DEF Forgotten, TypeOK
  <2>2. cache' \in {cache, Forgotten, [cache EXCEPT !.fan = Fanned(t), !.fanOK = TRUE],
                    [cache EXCEPT !.level = lvl[t], !.levelOK = TRUE]}
    BY DEF SetTECPower, FanSkip, FanRead, FanWrite, FanMark, FanFails, LevelSkip, LevelWrite,
           LevelMark, LevelFails
  <2>3. lvl[t] \in Levels /\ Fanned(t) \in BOOLEAN
    BY DEF TypeOK, Fanned
  <2> QED BY <2>1, <2>2, <2>3 DEF TypeOK
<1>6. tec' \in Levels
  <2>1. tec' \in {tec, lvl[t]}
    BY DEF SetTECPower, FanSkip, FanRead, FanWrite, FanMark, FanFails, LevelSkip, LevelWrite,
           LevelMark, LevelFails, devVars
  <2> QED BY <2>1 DEF TypeOK
<1>7. flags' \in [fan : BOOLEAN, warm : BOOLEAN]
  <2>1. FlagsWithFan(t) \in [fan : BOOLEAN, warm : BOOLEAN]
    BY DEF TypeOK, FlagsWithFan, Fanned
  <2>2. flags' \in {flags, FlagsWithFan(t)}
    BY DEF SetTECPower, FanSkip, FanRead, FanWrite, FanMark, FanFails, LevelSkip, LevelWrite,
           LevelMark, LevelFails, devVars
  <2> QED BY <2>1, <2>2 DEF TypeOK
<1>8. snap' \in [Threads -> [fan : BOOLEAN, warm : BOOLEAN]]
  <2>1. NoFlags \in [fan : BOOLEAN, warm : BOOLEAN]
    BY DEF NoFlags
  <2>2. snap' \in {snap, [snap EXCEPT ![t] = flags], [snap EXCEPT ![t] = NoFlags]}
    BY DEF SetTECPower, FanSkip, FanRead, FanWrite, FanMark, FanFails, LevelSkip, LevelWrite,
           LevelMark, LevelFails, locVars
  <2> QED BY <2>1, <2>2 DEF TypeOK
<1>9. \/ UNCHANGED fails
      \/ /\ t \in Loops /\ ret[t] = "tick" /\ to = ret[t]
         /\ \E n \in {0, fails[t] + 1} : fails' = [fails EXCEPT ![t] = n]
  <2>1. \/ UNCHANGED fails
        \/ \E ok \in BOOLEAN : Outcome(t, ok) /\ Goto(t, pc[t], ret[t])
    BY DEF SetTECPower, FanSkip, FanRead, FanWrite, FanMark, FanFails, LevelSkip, LevelWrite,
           LevelMark, LevelFails, loopVars, Goto
  <2>2. Goto(t, pc[t], ret[t]) => to = ret[t]
    BY <1>2 DEF Goto, TypeOK
  <2> QED BY <2>1, <2>2 DEF Outcome
<1>10. fails' \in [Loops -> 0 .. RunMaxConsecFails]
  <2>1. CASE t \in Loops /\ ret[t] = "tick"
    <3>1. ~Spent(t) /\ fails[t] \in 0 .. RunMaxConsecFails
      BY <1>1, <2>1 DEF LimitKept, TypeOK
    <3>2. 0 \in 0 .. RunMaxConsecFails /\ fails[t] + 1 \in 0 .. RunMaxConsecFails
      BY <3>1, CoolingAssumption DEF CoolingAssumption, Spent
    <3> QED BY <1>9, <3>2 DEF TypeOK
  <2> QED BY <1>9, <2>1 DEF TypeOK
<1>11. pc' \in [Threads -> CallerLabels \cup PowerLabels \cup LoopLabels]
  BY <1>2, <1>3, Disjoint DEF Goto, TypeOK, CallerRets, LoopRets, CallerLabels, LoopLabels
<1>12. TypeOK'
  BY <1>1, <1>4, <1>5, <1>6, <1>7, <1>8, <1>10, <1>11 DEF TypeOK, lifeVars
<1>13. LimitKept'
  <2> SUFFICES ASSUME NEW l \in Loops, pc'[l] \in PowerLabels, ret[l] = "tick"
               PROVE  ~Spent(l)'
    BY <1>1 DEF LimitKept
  <2>1. l \in Threads
    BY DEF Threads
  <2>2. CASE l # t
    <3>1. pc[l] \in PowerLabels /\ fails'[l] = fails[l]
      BY <1>2, <1>9, <2>1, <2>2 DEF Goto, TypeOK
    <3> QED BY <3>1 DEF LimitKept, Spent
  <2>3. CASE l = t
    <3>1. pc'[t] = to /\ to \in PowerLabels
      BY <1>2, <2>3 DEF Goto, TypeOK
    <3>2. ret[t] \in LoopRets
      BY <1>1, <2>3 DEF LifeInv, LabelsKept
    <3>3. UNCHANGED fails
      BY <1>9, <3>1, <3>2, Disjoint
    <3> QED BY <1>1, <2>3, <3>3 DEF LimitKept, Spent
  <2> QED BY <2>2, <2>3
<1> QED BY <1>12, <1>13

\* A step that only goes on.
LEMMA TypesStill ==
  ASSUME TypeInv, LifeInv, NEW t \in Threads, NEW from, NEW to \in allLabels \ PowerLabels,
         Goto(t, from, to),
         UNCHANGED <<camVars, cache, loopVars, devVars, usbVars, locVars, histVars>>
  PROVE  TypeInv'
<1>1. TypeOK'
  <2>1. pc' \in [Threads -> allLabels]
    BY DEF TypeInv, TypeOK, Goto, allLabels
  <2> QED BY <2>1 DEF TypeInv, TypeOK, allLabels, camVars, loopVars, devVars, usbVars, locVars, histVars
<1>2. LimitKept'
  BY DEF TypeInv, TypeOK, LimitKept, Spent, Goto, loopVars, locVars, Threads
<1> QED BY <1>1, <1>2 DEF TypeInv

\* A step of the loop itself.
LEMMA TypesLoop ==
  ASSUME TypeInv, LifeInv, NEW l \in Loops, LoopStep(l)
  PROVE  TypeInv'
<1> l \in Threads
  BY DEF Threads
<1>1. CASE SetTECPower(l)
  BY <1>1, TypesPower
<1>2. CASE StepFails(l) \/ StepSkips(l)
  <2>1. /\ ~Spent(l) /\ Goto(l, "tick", "tick")
        /\ \E n \in {0, fails[l] + 1} : fails' = [fails EXCEPT ![l] = n]
        /\ UNCHANGED <<camVars, cache, started, io, on, cancelled, devVars, usbVars, locVars, histVars>>
    BY <1>2 DEF StepFails, StepSkips
  <2>2. fails[l] + 1 \in 0 .. RunMaxConsecFails /\ 0 \in 0 .. RunMaxConsecFails
    BY <2>1, CoolingAssumption DEF CoolingAssumption, Spent, TypeInv, TypeOK
  <2>3. fails' \in [Loops -> 0 .. RunMaxConsecFails] /\ \A k \in Loops \ {l} : fails'[k] = fails[k]
    BY <2>1, <2>2 DEF TypeInv, TypeOK
  <2>4. pc' = pc /\ pc[l] = "tick"
    BY <2>1 DEF Goto, TypeInv, TypeOK
  <2>5. TypeOK'
    BY <2>1, <2>3, <2>4 DEF TypeInv, TypeOK, camVars, devVars, usbVars, locVars, histVars
  <2>6. LimitKept'
    BY <2>1, <2>3, <2>4 DEF TypeInv, LimitKept, Spent, PowerLabels, locVars
  <2> QED BY <2>5, <2>6 DEF TypeInv
<1>3. CASE StepDrives(l) \/ GiveUp(l)
  <2>1. PICK v \in Levels, b \in LoopRets :
           Invoke(l, "tick", v, b) /\ (b = "tick" => ~Spent(l))
    <3>1. 0 \in Levels
      BY CoolingAssumption DEF CoolingAssumption, Levels
    <3> QED BY <1>3, <3>1 DEF StepDrives, GiveUp, LoopRets
  <2>2. UNCHANGED <<camVars, cache, loopVars, devVars, usbVars, op, own, want, snap, histVars>>
    BY <1>3 DEF StepDrives, GiveUp
  <2>3. ret'[l] = b /\ ret' = [ret EXCEPT ![l] = b] /\ Goto(l, "tick", "fan")
        /\ lvl' \in [Threads -> Levels]
    BY <2>1 DEF Invoke, TypeInv, TypeOK
  <2>4. /\ pc' \in [Threads -> allLabels] /\ pc' = [pc EXCEPT ![l] = "fan"]
        /\ ret' \in [Threads -> {"idle", "en_start", "close_zero", "close", "tick", "retire"}]
    BY <2>3 DEF Goto, TypeInv, TypeOK, allLabels, PowerLabels, LoopRets
  <2>5. TypeOK'
    BY <2>2, <2>3, <2>4
       DEF TypeInv, TypeOK, allLabels, camVars, loopVars, devVars, usbVars, histVars
  <2>6. LimitKept'
    <3> SUFFICES ASSUME NEW k \in Loops, pc'[k] \in PowerLabels, ret'[k] = "tick"
                 PROVE  ~Spent(k)'
      BY DEF LimitKept
    <3>1. k \in Threads /\ fails' = fails
      BY <2>2 DEF Threads, loopVars
    <3>2. k # l => pc'[k] = pc[k] /\ ret'[k] = ret[k]
      BY <2>3, <2>4, <3>1 DEF TypeInv, TypeOK
    <3> QED BY <2>1, <2>3, <3>1, <3>2 DEF TypeInv, LimitKept, Spent
  <2> QED BY <2>5, <2>6 DEF TypeInv
<1>4. CASE LoopCancelled(l) \/ RetireCheck(l)
  <2>1. PICK from \in LoopLabels, to \in LoopLabels : Goto(l, from, to)
    BY <1>4 DEF LoopCancelled, RetireCheck, LoopLabels
  <2>2. UNCHANGED <<camVars, cache, loopVars, devVars, usbVars, locVars, histVars>>
    BY <1>4 DEF LoopCancelled, RetireCheck
  <2>3. to \in allLabels \ PowerLabels
    BY Disjoint DEF allLabels
  <2> QED BY <2>1, <2>2, <2>3, TypesStill
<1>5. CASE Retire(l)
  <2>1. /\ Goto(l, "retire_lock", "done")
        /\ cooler' \in {cooler, NoLoop} /\ coolFault' \in BOOLEAN
        /\ UNCHANGED <<thermal, cache, loopVars, devVars, usbVars, locVars, histVars>>
    BY <1>5 DEF Retire, TypeInv, TypeOK
  <2>2. "done" \in allLabels /\ "done" \notin PowerLabels /\ NoLoop \in 0 .. started
    BY CoolingAssumption DEF CoolingAssumption, allLabels, LoopLabels, PowerLabels, NoLoop, TypeInv, TypeOK
  <2>3. TypeOK'
    <3>1. pc' \in [Threads -> allLabels]
      BY <2>1, <2>2 DEF TypeInv, TypeOK, Goto, allLabels
    <3>2. cooler' \in 0 .. started
      BY <2>1, <2>2 DEF TypeInv, TypeOK
    <3> QED BY <2>1, <3>1, <3>2
            DEF TypeInv, TypeOK, allLabels, loopVars, devVars, usbVars, locVars, histVars
  <2>4. LimitKept'
    BY <2>1, <2>2 DEF TypeInv, TypeOK, LimitKept, Spent, Goto, loopVars, locVars, Threads
  <2> QED BY <2>3, <2>4 DEF TypeInv
<1> QED BY <1>1, <1>2, <1>3, <1>4, <1>5 DEF LoopStep

\* A step of a caller keeps the limits of the loops that ran before it.
LEMMA LimitsCaller ==
  ASSUME TypeInv, LifeInv, NEW t \in Callers,
         \A l \in Loops : pc'[l] \in PowerLabels => pc'[l] = pc[l],
         \A l \in Loops : ret'[l] = ret[l], UNCHANGED fails
  PROVE  LimitKept'
BY DEF TypeInv, LimitKept, Spent

\* The calls of EnableCooling, DisableCooling and Close.
LEMMA TypesLifeCalls ==
  ASSUME TypeInv, LifeInv, NEW t \in Callers,
         \/ EnableCheck(t) \/ EnableStart(t) \/ EnableTarget(t) \/ DisableTake(t)
         \/ DisableCancel(t) \/ DisableJoin(t) \/ DisableCheck(t) \/ CloseTransport(t)
  PROVE  TypeInv'
<1> USE DEF TypeInv
<1> t \in Threads /\ t \notin Loops
  BY Kinds
<1>1. PICK to \in CallerLabels : Goto(t, pc[t], to)
  BY DEF EnableCheck, EnableStart, EnableTarget, DisableTake, DisableCancel, DisableJoin,
         DisableCheck, CloseTransport, AfterDisable, Goto, CallerLabels
<1>2. pc' \in [Threads -> CallerLabels \cup PowerLabels \cup LoopLabels]
  BY <1>1 DEF Goto, TypeOK
<1>3. /\ UNCHANGED <<cache, started, io, fails, attached, devVars, lvl, snap, ret, op>>
      /\ cooler' \in 0 .. started
  <2>1. NoLoop \in 0 .. started
    BY CoolingAssumption DEF CoolingAssumption, NoLoop, TypeOK
  <2> QED BY <2>1 DEF EnableCheck, EnableStart, EnableTarget, DisableTake, DisableCancel,
         DisableJoin, DisableCheck, CloseTransport, TypeOK, camVars, loopVars, devVars,
         usbVars, locVars
<1>4. /\ thermal' \in Backends /\ coolFault' \in BOOLEAN /\ closed' \in BOOLEAN
      /\ wanted' \in BOOLEAN /\ excused' \in BOOLEAN
  <2>1. /\ thermal' \in {thermal, want[t]} /\ coolFault' \in {coolFault, FALSE}
        /\ closed' \in {closed, TRUE} /\ excused' \in {excused, FALSE}
    BY DEF EnableCheck, EnableStart, EnableTarget, DisableTake, DisableCancel, DisableJoin,
           DisableCheck, CloseTransport, camVars, usbVars, histVars
  <2>2. wanted' \in BOOLEAN
    <3>1. wanted' = wanted \/ wanted' = TRUE \/ wanted' = (wanted /\ op[t] = "enable")
      BY DEF EnableCheck, EnableStart, EnableTarget, DisableTake, DisableCancel, DisableJoin,
           DisableCheck, CloseTransport, histVars
    <3> QED BY <3>1 DEF TypeOK
  <2>3. {thermal, want[t]} \subseteq Backends
    BY DEF TypeOK
  <2>4. {coolFault, FALSE} \subseteq BOOLEAN /\ {closed, TRUE} \subseteq BOOLEAN
        /\ {excused, FALSE} \subseteq BOOLEAN
    BY Zenon DEF TypeOK
  <2> QED BY <2>1, <2>2, <2>3, <2>4, Zenon
<1>5. want' \in [Callers -> Backends]
  <2>1. CASE EnableCheck(t)
    <3>1. PICK b \in Backends \cup {thermal} : want' = [want EXCEPT ![t] = b]
      BY <2>1 DEF EnableCheck
    <3>2. b \in Backends
      BY DEF TypeOK
    <3> QED BY <3>1, <3>2 DEF TypeOK
  <2>2. CASE ~EnableCheck(t)
    BY <2>2 DEF EnableStart, EnableTarget, DisableTake, DisableCancel, DisableJoin,
           DisableCheck, CloseTransport, TypeOK, locVars
  <2> QED BY <2>1, <2>2
<1>6. own' \in [Callers -> 0 .. started] /\ on' \in [Loops -> BOOLEAN]
  <2>1. own' \in {own, [own EXCEPT ![t] = cooler]} /\ on' \in {on, [on EXCEPT ![own[t]] = TRUE]}
    BY DEF EnableCheck, EnableStart, EnableTarget, DisableTake, DisableCancel, DisableJoin,
           DisableCheck, CloseTransport, locVars, loopVars
  <2>2. own' \in [Callers -> 0 .. started]
    BY <2>1 DEF TypeOK
  <2>3. \A k \in 0 .. started : [on EXCEPT ![k] = TRUE] \in [Loops -> BOOLEAN]
    BY DEF TypeOK
  <2> QED BY <2>1, <2>2, <2>3 DEF TypeOK
<1>7. cancelled' \subseteq 1 .. started
  <2>1. CASE DisableCancel(t)
    <3>1. own[t] \in 1 .. started
      BY <2>1 DEF DisableCancel, Goto, LifeInv, TakenAway, Taking, TypeOK, NoLoop
    <3> QED BY <2>1, <3>1 DEF DisableCancel, TypeOK
  <2>2. CASE ~DisableCancel(t)
    BY <2>2 DEF EnableCheck, EnableStart, EnableTarget, DisableTake, DisableJoin,
         DisableCheck, CloseTransport, TypeOK, loopVars
  <2> QED BY <2>1, <2>2
<1>8. TypeOK'
  BY <1>2, <1>3, <1>4, <1>5, <1>6, <1>7 DEF TypeOK, devVars
<1>9. LimitKept'
  BY <1>1, <1>3, LimitsCaller, Kinds DEF Goto, TypeOK, Threads
<1> QED BY <1>8, <1>9

\* The calls that write: the shutdown zeros, the heater, the reset.
LEMMA TypesWriteCalls ==
  ASSUME TypeInv, LifeInv, NEW t \in Callers,
         \/ DisableZero(t) \/ CloseZero(t) \/ HeatRead(t) \/ HeatWrite(t) \/ HeatFails(t)
         \/ ResetInvalidate(t) \/ ResetDevice(t)
  PROVE  TypeInv'
<1> USE DEF TypeInv
<1> t \in Threads /\ t \notin Loops
  BY Kinds
<1>1. PICK to \in CallerLabels \cup PowerLabels : Goto(t, pc[t], to)
  BY DEF DisableZero, CloseZero, HeatRead, HeatWrite, HeatFails, ResetInvalidate,
         ResetDevice, Invoke, Goto, CallerLabels, PowerLabels
<1>2. pc' \in [Threads -> CallerLabels \cup PowerLabels \cup LoopLabels]
  BY <1>1 DEF Goto, TypeOK
<1>3. UNCHANGED <<camVars, loopVars, usbVars, op, own, want, histVars>>
  BY DEF DisableZero, CloseZero, HeatRead, HeatWrite, HeatFails, ResetInvalidate,
         ResetDevice, locVars
<1>4. 0 \in Levels /\ NoFlags \in [fan : BOOLEAN, warm : BOOLEAN]
  BY CoolingAssumption DEF CoolingAssumption, Levels, NoFlags
<1>5. cache' \in [level : Levels, levelOK : BOOLEAN, fan : BOOLEAN, fanOK : BOOLEAN]
  <2>1. Forgotten \in [level : Levels, levelOK : BOOLEAN, fan : BOOLEAN, fanOK : BOOLEAN]
    BY DEF Forgotten, TypeOK
  <2> QED BY <2>1 DEF DisableZero, CloseZero, HeatRead, HeatWrite, HeatFails,
                      ResetInvalidate, ResetDevice, TypeOK
<1>6. tec' \in Levels /\ flags' \in [fan : BOOLEAN, warm : BOOLEAN]
  <2>1. \A w \in Warmed(t) : w \in [fan : BOOLEAN, warm : BOOLEAN]
    <3> DEFINE f == IF FanInFlags THEN snap[t].fan ELSE flags.fan
    <3>1. f \in BOOLEAN
      BY DEF TypeOK
    <3> HIDE DEF f
    <3>2. Warmed(t) = [fan : {f}, warm : BOOLEAN]
      BY DEF Warmed, f
    <3> QED BY <3>1, <3>2
  <2>2. \A w \in [fan : BOOLEAN, warm : {FALSE}] : w \in [fan : BOOLEAN, warm : BOOLEAN]
    OBVIOUS
  <2>3. \/ flags' = flags \/ flags' \in Warmed(t) \/ flags' \in [fan : BOOLEAN, warm : {FALSE}]
    BY DEF DisableZero, CloseZero, HeatRead, HeatWrite, HeatFails, ResetInvalidate,
           ResetDevice, devVars
  <2>4. tec' \in {tec, 0}
    BY DEF DisableZero, CloseZero, HeatRead, HeatWrite, HeatFails, ResetInvalidate,
           ResetDevice, devVars
  <2>5. tec' \in Levels
    BY <1>4, <2>4 DEF TypeOK
  <2>6. flags \in [fan : BOOLEAN, warm : BOOLEAN]
    BY DEF TypeOK
  <2> QED BY <2>1, <2>2, <2>3, <2>5, <2>6, Zenon
<1>7. lvl' \in [Threads -> Levels] /\ snap' \in [Threads -> [fan : BOOLEAN, warm : BOOLEAN]]
  <2>1. lvl' \in {lvl, [lvl EXCEPT ![t] = 0]}
    BY DEF DisableZero, CloseZero, HeatRead, HeatWrite, HeatFails, Invoke, ResetInvalidate,
           ResetDevice, locVars
  <2>2. snap' \in {snap, [snap EXCEPT ![t] = flags], [snap EXCEPT ![t] = NoFlags]}
    BY DEF DisableZero, CloseZero, HeatRead, HeatWrite, HeatFails, Invoke, ResetInvalidate,
           ResetDevice, locVars
  <2> QED BY <1>4, <2>1, <2>2 DEF TypeOK
<1>8. ret' = ret \/ \E b \in CallerRets : ret' = [ret EXCEPT ![t] = b]
  BY DEF DisableZero, CloseZero, HeatRead, HeatWrite, HeatFails, Invoke, AfterDisable,
         ResetInvalidate, ResetDevice, locVars, CallerRets
<1>9. ret' \in [Threads -> {"idle", "en_start", "close_zero", "close", "tick", "retire"}]
  BY <1>8 DEF TypeOK, CallerRets
<1>10. TypeOK'
  BY <1>2, <1>3, <1>5, <1>6, <1>7, <1>9 DEF TypeOK, camVars, loopVars, usbVars, histVars
<1>11. LimitKept'
  <2>1. \A l \in Loops : l \in Threads /\ l # t
    BY DEF Threads
  <2>2. \A l \in Loops : pc'[l] = pc[l] /\ ret'[l] = ret[l]
    BY <1>1, <1>8, <2>1 DEF Goto, TypeOK
  <2> QED BY <1>3, <2>2, LimitsCaller DEF loopVars
<1> QED BY <1>10, <1>11

\* Starting a loop.
LEMMA TypesFresh == ASSUME TypeInv, LifeInv, NEW t \in Callers, EnableFresh(t) PROVE TypeInv'
<1> DEFINE l == started + 1
<1> USE DEF TypeInv
<1>1. l \in Loops /\ l \in Threads /\ t \in Threads /\ t # l /\ l \in Nat
  BY Kinds, CoolingAssumption DEF EnableFresh, CoolingAssumption, TypeOK, Loops, Threads
<1>2. /\ started' = l /\ cooler' = l /\ l \in 0 .. MaxLoops /\ l \in 0 .. l
      /\ 0 .. started \subseteq 0 .. l /\ 1 .. started \subseteq 1 .. l
  BY <1>1, CoolingAssumption DEF EnableFresh, CoolingAssumption, TypeOK, Loops
<1>3. /\ UNCHANGED <<cache, on, cancelled, fails, devVars, usbVars, op, want, lvl, snap, ret, excused>>
      /\ thermal' \in Backends /\ coolFault' \in BOOLEAN /\ wanted' \in BOOLEAN
      /\ io' = [io EXCEPT ![l] = want[t]] /\ own' = [own EXCEPT ![t] = l]
      /\ pc' = [pc EXCEPT ![t] = "en_target", ![l] = "tick"]
  BY DEF EnableFresh, TypeOK
<1>4. TypeOK'
  <2> HIDE DEF l
  <2>1. pc' \in [Threads -> CallerLabels \cup PowerLabels \cup LoopLabels]
    BY <1>3 DEF TypeOK, CallerLabels, LoopLabels
  <2>2. io' \in [Loops -> Backends] /\ own' \in [Callers -> 0 .. started']
    BY <1>2, <1>3 DEF TypeOK
  <2> QED BY <1>2, <1>3, <2>1, <2>2 DEF TypeOK, devVars, usbVars
<1>5. LimitKept'
  <2> HIDE DEF l
  <2>1. \A k \in Loops : pc'[k] \in PowerLabels => pc'[k] = pc[k]
    BY <1>1, <1>3, Kinds DEF TypeOK, PowerLabels, Threads
  <2> QED BY <1>3, <2>1, LimitsCaller
<1> QED BY <1>4, <1>5

\* Entering a call.
LEMMA TypesCall ==
  ASSUME TypeInv, LifeInv, NEW t \in Callers, NEW o \in Ops, Call(t, o) PROVE TypeInv'
<1> t \in Threads /\ t \notin Loops /\ o \in AllOps
  BY Kinds, CoolingAssumption DEF CoolingAssumption
<1>1. PICK to \in CallerLabels : Goto(t, "idle", to)
  BY DEF Call, CallerLabels
<1>2. /\ op' = [op EXCEPT ![t] = o]
      /\ UNCHANGED <<camVars, cache, loopVars, devVars, usbVars, own, want, lvl, snap, ret, histVars>>
  BY DEF Call
<1>3. TypeOK'
  <2>1. pc' \in [Threads -> CallerLabels \cup PowerLabels \cup LoopLabels]
    BY <1>1 DEF Goto, TypeInv, TypeOK
  <2>2. op' \in [Callers -> AllOps \cup {"none"}]
    BY <1>2 DEF TypeInv, TypeOK
  <2> QED BY <1>2, <2>1, <2>2 DEF TypeInv, TypeOK, camVars, loopVars, devVars, usbVars, histVars
<1>4. LimitKept'
  BY <1>1, <1>2, LimitsCaller, Kinds DEF Goto, TypeInv, TypeOK, Threads, loopVars
<1> QED BY <1>3, <1>4 DEF TypeInv

\* Every step keeps the types.
LEMMA NextTypes == TypeInv /\ LifeInv /\ [Next]_vars => TypeInv'
<1> SUFFICES ASSUME TypeInv, LifeInv, [Next]_vars PROVE TypeInv'
  OBVIOUS
<1>1. ASSUME NEW t \in Callers, CallerStep(t) PROVE TypeInv'
  <2>1. CASE SetTECPower(t)
    BY <2>1, Kinds, TypesPower
  <2>2. CASE EnableFresh(t)
    BY <2>2, TypesFresh
  <2>3. CASE \/ EnableCheck(t) \/ EnableStart(t) \/ EnableTarget(t) \/ DisableTake(t)
             \/ DisableCancel(t) \/ DisableJoin(t) \/ DisableCheck(t) \/ CloseTransport(t)
    BY <2>3, TypesLifeCalls
  <2>4. CASE \/ DisableZero(t) \/ CloseZero(t) \/ HeatRead(t) \/ HeatWrite(t) \/ HeatFails(t)
             \/ ResetInvalidate(t) \/ ResetDevice(t)
    BY <2>4, TypesWriteCalls
  <2> QED BY <1>1, <2>1, <2>2, <2>3, <2>4 DEF CallerStep
<1>2. CASE Unplug \/ UNCHANGED vars
  <2>1. /\ UNCHANGED <<camVars, cache, loopVars, devVars, closed, pc, locVars, histVars>>
        /\ attached' \in {attached, FALSE}
    BY <1>2 DEF Unplug, vars, usbVars
  <2>2. TypeOK'
    BY <2>1, ZenonT(60) DEF TypeInv, TypeOK, camVars, loopVars, devVars, locVars, histVars
  <2>3. LimitKept'
    BY <2>1 DEF TypeInv, LimitKept, Spent, loopVars, locVars
  <2> QED BY <2>2, <2>3 DEF TypeInv
<1> QED BY <1>1, <1>2, TypesCall, TypesLoop DEF Next

\* Every field keeps its type, and the count of failures its limit.
LEMMA TypesAlways == Spec => [](TypeInv /\ LifeInv)
BY InitTypes, NextTypes, InitLife, NextLife, PTL DEF Spec

\* Every field always has its type: the handle names a loop that was started, a
\* loop counts no failure past the limit.
THEOREM CoolingTypes == Spec => []TypeOK
BY TypesAlways, PTL DEF TypeInv

-----------------------------------------------------------------------------
(* One caller: the handle, the backend, and who is at the drive *)

\* One goroutine makes the cooling calls, as gosnap does: with two, the theorems
\* below are false, as the runs show with a second caller.
LoneCaller == \A t, u \in Callers : t = u

\* A call between taking the handle and returning, or starting a loop.
Letting == Taking \cup {"dis_check", "dis_zero", "close_zero", "close"} \cup PowerLabels

\* There the Camera holds no loop.
Handless == \A t \in Callers : pc[t] \in Letting => cooler = NoLoop

\* Close is the last call, and leaves no loop.
ClosedForGood == closed => AllIdle /\ cooler = NoLoop

\* Only calls of Ops are made.
OpsKept == \A t \in Callers :
  /\ pc[t] \in {"heat_read", "heat_write"} => "heat" \in Ops
  /\ pc[t] \in {"reset_inval", "reset"} => "reset" \in Ops

\* The loop drives the backend Temperature reads, and an EnableCooling about to
\* retarget it names that one.
BackendKept ==
  cooler # NoLoop =>
    /\ io[cooler] = thermal
    /\ \A t \in Callers : pc[t] = "en_start" => want[t] = io[cooler]

\* The inductive invariant of one caller.
LoneInv == TypeInv /\ LifeInv /\ Handless /\ ClosedForGood /\ OpsKept /\ BackendKept

\* A caller's step moves that caller, and a loop it starts.
LEMMA CallerGoes ==
  ASSUME TypeInv, LifeInv, NEW t \in Callers, CallerStep(t)
  PROVE  /\ pc[t] # "idle" /\ pc[t] \in CallerLabels \cup PowerLabels
         /\ \A u \in Threads \ {t} : pc'[u] = pc[u] \/ (EnableFresh(t) /\ u = started + 1 /\ pc'[u] = "tick")
         /\ \A u \in Callers \ {t} : want'[u] = want[u]
         /\ DOMAIN pc' = Threads
<1> t \in Threads /\ t \notin Loops
  BY Kinds
<1>1. pc[t] \in CallerLabels \cup PowerLabels
  BY DEF LifeInv, LabelsKept
<1>2. CASE EnableFresh(t)
  BY <1>1, <1>2 DEF EnableFresh, TypeInv, TypeOK
<1>3. CASE ~EnableFresh(t)
  <2>1. /\ pc[t] # "idle" /\ \E to : Goto(t, pc[t], to)
        /\ want' = want \/ \E b : want' = [want EXCEPT ![t] = b]
    <3>1. CASE SetTECPower(t)
      <4>1. pc[t] \in PowerLabels /\ \E to : Goto(t, pc[t], to)
        BY <3>1, PowerGoes
      <4>2. want' = want
        BY <3>1 DEF SetTECPower, FanSkip, FanRead, FanWrite, FanMark, FanFails, LevelSkip,
                    LevelWrite, LevelMark, LevelFails, locVars
      <4> QED BY <4>1, <4>2 DEF PowerLabels
    <3>2. CASE \/ EnableCheck(t) \/ EnableStart(t) \/ EnableTarget(t) \/ DisableTake(t)
               \/ DisableCancel(t) \/ DisableJoin(t) \/ DisableCheck(t) \/ CloseTransport(t)
      BY <3>2 DEF EnableCheck, EnableStart, EnableTarget, DisableTake, DisableCancel,
                  DisableJoin, DisableCheck, CloseTransport, Goto, locVars
    <3>3. CASE \/ DisableZero(t) \/ CloseZero(t) \/ HeatRead(t) \/ HeatWrite(t) \/ HeatFails(t)
               \/ ResetInvalidate(t) \/ ResetDevice(t)
      BY <3>3 DEF DisableZero, CloseZero, HeatRead, HeatWrite, HeatFails, ResetInvalidate,
                  ResetDevice, Invoke, Goto, locVars
    <3> QED BY <1>3, <3>1, <3>2, <3>3 DEF CallerStep
  <2> QED BY <1>1, <2>1 DEF Goto, TypeInv, TypeOK
<1> QED BY <1>2, <1>3

\* A loop's step moves that loop, and lets go of the handle at most.
LEMMA LoopGoes ==
  ASSUME TypeInv, LifeInv, NEW l \in Loops, LoopStep(l)
  PROVE  /\ Live(l) /\ \A u \in Threads \ {l} : pc'[u] = pc[u]
         /\ cooler' \in {cooler, NoLoop}
         /\ UNCHANGED <<thermal, started, io, on, cancelled, usbVars, op, own, want, wanted>>
         /\ DOMAIN pc' = Threads
<1> l \in Threads
  BY DEF Threads
<1>1. CASE SetTECPower(l)
  <2>1. pc[l] \in PowerLabels /\ cooler' = cooler /\ \E to : Goto(l, pc[l], to)
    BY <1>1, PowerGoes DEF lifeVars
  <2>2. UNCHANGED <<thermal, started, io, on, cancelled, usbVars, op, own, want, wanted>>
    BY <1>1 DEF SetTECPower, FanSkip, FanRead, FanWrite, FanMark, FanFails, LevelSkip,
                LevelWrite, LevelMark, LevelFails, camVars, loopVars, locVars, histVars
  <2> QED BY <2>1, <2>2 DEF PowerLabels, Live, Goto, TypeInv, TypeOK
<1>2. CASE LoopCancelled(l) \/ StepFails(l) \/ StepSkips(l) \/ StepDrives(l) \/ GiveUp(l)
           \/ RetireCheck(l) \/ Retire(l)
  <2>1. /\ pc[l] \in {"tick", "retire", "retire_lock"} /\ \E to : Goto(l, pc[l], to)
        /\ cooler' \in {cooler, NoLoop}
        /\ UNCHANGED <<thermal, started, io, on, cancelled, usbVars, op, own, want, wanted>>
    BY <1>2 DEF LoopCancelled, StepFails, StepSkips, StepDrives, GiveUp, RetireCheck, Retire,
                Invoke, Goto, camVars, loopVars, locVars, histVars
  <2> QED BY <2>1 DEF Live, Goto, TypeInv, TypeOK
<1> QED BY <1>1, <1>2 DEF LoopStep

\* A caller that lets go, or writes the shutdown zero, does so without a handle.
LEMMA HandlessStep ==
  ASSUME LoneInv, LoneCaller, NEW t \in Callers, CallerStep(t)
  PROVE  /\ pc'[t] \in Letting => cooler' = NoLoop
         /\ pc[t] \in Letting => cooler' = NoLoop /\ UNCHANGED <<thermal, io, want>>
<1> USE DEF LoneInv
<1> t \in Threads /\ t \notin Loops
  BY Kinds
<1>1. CASE SetTECPower(t)
  <2>1. pc[t] \in PowerLabels /\ cooler' = cooler
    BY <1>1, PowerGoes DEF lifeVars
  <2>2. UNCHANGED <<thermal, io, want>>
    BY <1>1 DEF SetTECPower, FanSkip, FanRead, FanWrite, FanMark, FanFails, LevelSkip,
                LevelWrite, LevelMark, LevelFails, camVars, loopVars, locVars
  <2> QED BY <2>1, <2>2 DEF Handless, Letting
<1>2. CASE EnableCheck(t) \/ EnableStart(t) \/ EnableTarget(t)
  BY <1>2 DEF EnableCheck, EnableStart, EnableTarget, Goto, Letting, Taking, PowerLabels,
              TypeInv, TypeOK
<1>3. CASE EnableFresh(t)
  <2>1. pc[t] = "en_start" /\ pc'[t] = "en_target"
    BY <1>3, CoolingAssumption
       DEF EnableFresh, TypeInv, TypeOK, CoolingAssumption, Loops
  <2> QED BY <2>1 DEF Letting, Taking, PowerLabels
<1>4. CASE DisableTake(t)
  BY <1>4 DEF DisableTake, Goto, Letting, Taking, PowerLabels
<1>5. CASE DisableCancel(t) \/ DisableJoin(t) \/ DisableCheck(t) \/ DisableZero(t)
           \/ CloseZero(t) \/ CloseTransport(t)
  <2>1. pc[t] \in Letting /\ UNCHANGED <<cooler, thermal, io, want>>
    BY <1>5 DEF DisableCancel, DisableJoin, DisableCheck, DisableZero, CloseZero,
                CloseTransport, Invoke, Goto, Letting, Taking, camVars, loopVars, locVars
  <2> QED BY <2>1 DEF Handless
<1>6. CASE HeatRead(t) \/ HeatWrite(t) \/ HeatFails(t) \/ ResetInvalidate(t) \/ ResetDevice(t)
  BY <1>6, ZenonT(60) DEF HeatRead, HeatWrite, HeatFails, ResetInvalidate, ResetDevice, Goto, Letting,
              Taking, PowerLabels, TypeInv, TypeOK
<1> QED BY <1>1, <1>2, <1>3, <1>4, <1>5, <1>6 DEF CallerStep

\* A closed camera has no loop, so nothing runs on it.
LEMMA ClosedIsStill ==
  ASSUME LoneInv, closed
  PROVE  /\ \A t \in Callers : pc[t] = "idle"
         /\ \A l \in Loops : ~Live(l)
<1>1. AllIdle /\ cooler = NoLoop
  BY DEF LoneInv, ClosedForGood
<1>2. \A t \in Callers, l \in Loops : ~Owner(t, l)
  BY <1>1 DEF AllIdle, Owner, Taking
<1>3. \A l \in Loops : l # NoLoop
  BY CoolingAssumption DEF CoolingAssumption, Loops, NoLoop
<1> QED BY <1>1, <1>2, <1>3 DEF AllIdle, LoneInv, LifeInv, LoopsOwned

\* Which backend the handle's loop and Temperature have, after a caller's step.
LEMMA BackendStep ==
  ASSUME LoneInv, LoneCaller, NEW t \in Callers, CallerStep(t)
  PROVE  BackendKept'
<1> USE DEF LoneInv
<1> t \in Threads /\ \A u \in Callers : u = t
  BY Kinds DEF LoneCaller
<1>1. CASE pc[t] \in Letting
  BY <1>1, HandlessStep DEF BackendKept
<1>2. CASE EnableCheck(t)
  <2>1. UNCHANGED <<cooler, thermal, io>>
    BY <1>2 DEF EnableCheck, camVars, loopVars
  <2>2. pc'[t] = "en_start" => cooler = NoLoop \/ io[cooler] = want'[t]
    BY <1>2 DEF EnableCheck, Goto, TypeInv, TypeOK
  <2> QED BY <2>1, <2>2 DEF BackendKept
<1>3. CASE EnableStart(t)
  BY <1>3 DEF EnableStart, BackendKept, Goto, loopVars, TypeInv, TypeOK
<1>4. CASE EnableFresh(t)
  <2>1. started + 1 \in Loops
    BY <1>4, CoolingAssumption DEF EnableFresh, TypeInv, TypeOK, CoolingAssumption, Loops
  <2>2. pc'[t] = "en_target" \/ started + 1 = t
    BY <1>4 DEF EnableFresh, TypeInv, TypeOK
  <2>3. started + 1 # t
    BY <2>1, Kinds
  <2> QED BY <1>4, <2>1, <2>2, <2>3 DEF EnableFresh, BackendKept, TypeInv, TypeOK
<1>5. CASE EnableTarget(t)
  BY <1>5 DEF EnableTarget, BackendKept, Goto, camVars, TypeInv, TypeOK
<1>6. CASE DisableTake(t)
  BY <1>6 DEF DisableTake, BackendKept
<1>7. CASE HeatRead(t) \/ HeatWrite(t) \/ HeatFails(t) \/ ResetInvalidate(t) \/ ResetDevice(t)
  <2>1. UNCHANGED <<cooler, thermal, io, want>> /\ pc'[t] # "en_start"
    BY <1>7 DEF HeatRead, HeatWrite, HeatFails, ResetInvalidate, ResetDevice, Goto, camVars,
                loopVars, locVars, TypeInv, TypeOK
  <2> QED BY <2>1 DEF BackendKept
<1>8. CASE SetTECPower(t)
  BY <1>1, <1>8, PowerGoes DEF Letting
<1>9. CASE DisableCancel(t) \/ DisableJoin(t) \/ DisableCheck(t) \/ DisableZero(t)
           \/ CloseZero(t) \/ CloseTransport(t)
  <2>1. pc[t] \in Letting
    BY <1>9 DEF DisableCancel, DisableJoin, DisableCheck, DisableZero, CloseZero,
                CloseTransport, Invoke, Goto, Letting, Taking
  <2> QED BY <1>1, <2>1
<1> QED BY <1>2, <1>3, <1>4, <1>5, <1>6, <1>7, <1>8, <1>9 DEF CallerStep

\* Which calls a caller's step goes through.
LEMMA OpsStep ==
  ASSUME LoneInv, LoneCaller, NEW t \in Callers, CallerStep(t)
  PROVE  OpsKept' /\ (UNCHANGED closed \/ (pc[t] = "close" /\ pc'[t] = "idle"))
<1> USE DEF LoneInv
<1> t \in Threads /\ t \notin Loops /\ \A u \in Callers : u = t
  BY Kinds DEF LoneCaller
<1> DEFINE Others == {"heat_read", "heat_write", "reset_inval", "reset"}
<1>1. CASE SetTECPower(t)
  <2>1. PICK to \in PowerLabels \cup {ret[t]} : Goto(t, pc[t], to)
    BY <1>1, PowerGoes
  <2>2. pc'[t] \notin Others
    BY <1>1, <2>1, PowerGoes
       DEF Goto, TypeInv, TypeOK, LifeInv, LabelsKept, CallerRets, PowerLabels
  <2>3. UNCHANGED closed
    BY <1>1 DEF SetTECPower, FanSkip, FanRead, FanWrite, FanMark, FanFails, LevelSkip,
                LevelWrite, LevelMark, LevelFails, usbVars
  <2> QED BY <2>2, <2>3 DEF OpsKept
<1>2. CASE EnableCheck(t) \/ EnableStart(t) \/ EnableTarget(t) \/ DisableTake(t)
           \/ DisableCancel(t) \/ DisableJoin(t) \/ DisableCheck(t) \/ DisableZero(t)
           \/ CloseZero(t)
  <2>1. pc'[t] \notin Others /\ UNCHANGED closed
    BY <1>2 DEF EnableCheck, EnableStart, EnableTarget, DisableTake, DisableCancel,
                DisableJoin, DisableCheck, DisableZero, CloseZero, Invoke, AfterDisable, Goto,
                usbVars, TypeInv, TypeOK
  <2> QED BY <2>1 DEF OpsKept
<1>3. CASE EnableFresh(t)
  <2>1. started + 1 # t
    BY <1>3, CoolingAssumption DEF EnableFresh, TypeInv, TypeOK, CoolingAssumption, Loops
  <2>2. pc'[t] = "en_target" /\ UNCHANGED closed
    BY <1>3, <2>1 DEF EnableFresh, TypeInv, TypeOK, usbVars
  <2> QED BY <2>2 DEF OpsKept
<1>4. CASE CloseTransport(t)
  BY <1>4 DEF CloseTransport, Goto, OpsKept, TypeInv, TypeOK
<1>5. CASE HeatRead(t) \/ HeatWrite(t) \/ HeatFails(t)
  <2>1. /\ pc[t] \in {"heat_read", "heat_write"} /\ pc'[t] \in {"heat_write", "idle"}
        /\ UNCHANGED closed
    BY <1>5 DEF HeatRead, HeatWrite, HeatFails, Goto, usbVars, TypeInv, TypeOK
  <2> QED BY <2>1 DEF OpsKept
<1>6. CASE ResetInvalidate(t) \/ ResetDevice(t)
  <2>1. /\ pc[t] \in {"reset_inval", "reset"} /\ pc'[t] \in {"reset", "idle"}
        /\ UNCHANGED closed
    BY <1>6 DEF ResetInvalidate, ResetDevice, Goto, usbVars, TypeInv, TypeOK
  <2> QED BY <2>1 DEF OpsKept
<1> QED BY <1>1, <1>2, <1>3, <1>4, <1>5, <1>6 DEF CallerStep

\* A Camera is opened with no loop and no call.
LEMMA InitLone == Init => LoneInv
<1> SUFFICES ASSUME Init PROVE LoneInv
  OBVIOUS
<1>1. \A t \in Callers : pc[t] = "idle"
  BY Kinds DEF Init
<1>2. Handless /\ OpsKept
  BY <1>1 DEF Handless, OpsKept, Letting, Taking, PowerLabels
<1> QED BY <1>2, InitTypes, InitLife DEF Init, LoneInv, ClosedForGood, BackendKept, NoLoop

\* Every step of the system keeps it.
LEMMA NextLone == ASSUME LoneCaller, LoneInv, [Next]_vars PROVE LoneInv'
<1>1. TypeInv' /\ LifeInv'
  BY NextTypes, NextLife DEF LoneInv
<1>2. CASE \E t \in Callers : CallerStep(t)
  <2>1. PICK t \in Callers : CallerStep(t)
    BY <1>2
  <2>2. \A u \in Callers : u = t
    BY DEF LoneCaller
  <2>3. Handless'
    BY <2>1, <2>2, HandlessStep DEF Handless
  <2>4. ClosedForGood'
    <3>1. pc[t] # "idle"
      BY <2>1, CallerGoes DEF LoneInv
    <3>2. ~closed
      BY <3>1, ClosedIsStill
    <3>3. UNCHANGED closed \/ (pc[t] = "close" /\ pc'[t] = "idle")
      BY <2>1, OpsStep
    <3>4. pc[t] = "close" => cooler' = NoLoop
      BY <2>1, HandlessStep DEF Letting
    <3> QED BY <2>2, <3>2, <3>3, <3>4 DEF ClosedForGood, AllIdle
  <2> QED BY <1>1, <2>1, <2>3, <2>4, OpsStep, BackendStep DEF LoneInv
<1>3. CASE \E t \in Callers, o \in Ops : Call(t, o)
  <2>1. PICK t \in Callers, o \in Ops : Call(t, o)
    BY <1>3
  <2>2. /\ ~closed /\ UNCHANGED <<cooler, thermal, io, want, closed>>
        /\ pc'[t] \in {"en_check", "dis_take", "heat_read", "reset_inval"}
        /\ pc'[t] = "heat_read" => o = "heat"
        /\ pc'[t] = "reset_inval" => o = "reset"
    <3>1. t \in Threads /\ o \in AllOps
      BY Kinds, CoolingAssumption DEF CoolingAssumption
    <3> QED BY <2>1, <3>1 DEF Call, Goto, AllOps, camVars, loopVars, usbVars, LoneInv, TypeInv, TypeOK
  <2>3. \A u \in Callers : u = t
    BY DEF LoneCaller
  <2>4. Handless' /\ ClosedForGood' /\ OpsKept' /\ BackendKept'
    BY <2>2, <2>3 DEF LoneInv, Handless, ClosedForGood, OpsKept, BackendKept, Letting, Taking, PowerLabels
  <2> QED BY <1>1, <2>4 DEF LoneInv
<1>4. CASE \E l \in Loops : LoopStep(l)
  <2>1. PICK l \in Loops : LoopStep(l)
    BY <1>4
  <2>2. \A u \in Callers : pc'[u] = pc[u]
    BY <2>1, LoopGoes, Kinds DEF LoneInv
  <2>3. cooler' \in {cooler, NoLoop} /\ UNCHANGED <<thermal, io, usbVars, want>>
    BY <2>1, LoopGoes DEF LoneInv
  <2>4. Handless' /\ ClosedForGood' /\ OpsKept' /\ BackendKept'
    BY <2>2, <2>3 DEF LoneInv, Handless, ClosedForGood, OpsKept, BackendKept, AllIdle, usbVars
  <2> QED BY <1>1, <2>4 DEF LoneInv
<1>5. CASE Unplug \/ UNCHANGED vars
  <2>1. UNCHANGED <<cooler, thermal, io, want, closed, pc>>
    BY <1>5 DEF Unplug, vars, camVars, loopVars, usbVars, locVars
  <2>2. Handless' /\ ClosedForGood' /\ OpsKept' /\ BackendKept'
    BY <2>1 DEF LoneInv, Handless, ClosedForGood, OpsKept, BackendKept, AllIdle
  <2> QED BY <1>1, <2>2 DEF LoneInv
<1> QED BY <1>2, <1>3, <1>4, <1>5 DEF Next

\* Temperature reads the backend that regulation drives, whatever the caller
\* swaps and however loops retire: one caller's EnableCooling on another backend
\* stops the old loop before it starts its own.
THEOREM ThermalFollows == ASSUME LoneCaller PROVE Spec => []OneBackend
<1>1. Init => LoneInv
  BY InitLone
<1>2. LoneInv /\ [Next]_vars => LoneInv'
  BY NextLone
<1>3. LoneInv => OneBackend
  BY DEF LoneInv, BackendKept, OneBackend
<1> QED BY <1>1, <1>2, <1>3, PTL DEF Spec

-----------------------------------------------------------------------------
(* One caller: the write cache *)

\* In the middle of a SetTECPower.
Busy == PowerLabels \ {"fan"}

\* A step past the drive: nothing is written to it, the cache forgets at most,
\* and whoever is inside SetTECPower stays where it is.
Aside ==
  /\ UNCHANGED tec /\ cache' \in {cache, Forgotten}
  /\ \A u \in Threads : pc[u] \in Busy \/ pc'[u] \in Busy => pc'[u] = pc[u] /\ lvl'[u] = lvl[u]

\* Every step is past the drive, or one of SetTECPower's, or the device reset.
LEMMA StepsAside ==
  ASSUME TypeInv, LifeInv, [Next]_vars
  PROVE  \/ Aside
         \/ \E t \in Threads : SetTECPower(t)
         \/ \E t \in Callers : pc[t] = "reset"
<1>1. ASSUME NEW t \in Callers, CallerStep(t), ~SetTECPower(t), pc[t] # "reset"
      PROVE  Aside
  <2> t \in Threads /\ t \notin Loops
    BY Kinds
  <2>1. CASE EnableFresh(t)
    <3>1. started + 1 \in Loops /\ started + 1 \in Threads
      BY <2>1, CoolingAssumption DEF EnableFresh, TypeInv, TypeOK, CoolingAssumption, Loops, Threads
    <3>2. pc[started + 1] = "unborn" /\ started + 1 # t
      BY <3>1 DEF LifeInv, LabelsKept, TypeInv, TypeOK
    <3>3. \A u \in Threads \ {t, started + 1} : pc'[u] = pc[u]
      BY <2>1 DEF EnableFresh, TypeInv, TypeOK
    <3>4. pc[t] = "en_start" /\ pc'[t] = "en_target" /\ pc'[started + 1] = "tick"
      BY <2>1, <3>1, <3>2 DEF EnableFresh, TypeInv, TypeOK
    <3>5. UNCHANGED <<tec, cache, lvl>>
      BY <2>1 DEF EnableFresh, devVars
    <3> QED BY <3>2, <3>3, <3>4, <3>5 DEF Aside, Busy, PowerLabels
  <2>2. CASE \/ EnableCheck(t) \/ EnableStart(t) \/ EnableTarget(t) \/ DisableTake(t)
             \/ DisableCancel(t) \/ DisableJoin(t) \/ DisableCheck(t) \/ CloseTransport(t)
    <3>1. pc[t] \notin PowerLabels /\ \E to \in CallerLabels : Goto(t, pc[t], to)
      BY <2>2 DEF EnableCheck, EnableStart, EnableTarget, DisableTake, DisableCancel,
         DisableJoin, DisableCheck, CloseTransport, AfterDisable, Goto, CallerLabels, PowerLabels
    <3>2. UNCHANGED <<tec, cache, lvl>>
      BY <2>2 DEF EnableCheck, EnableStart, EnableTarget, DisableTake, DisableCancel,
         DisableJoin, DisableCheck, CloseTransport, devVars, locVars
    <3> QED BY <3>1, <3>2, Disjoint DEF Aside, Busy, Goto, TypeInv, TypeOK
  <2>3. CASE \/ DisableZero(t) \/ CloseZero(t) \/ HeatRead(t) \/ HeatWrite(t) \/ HeatFails(t)
             \/ ResetInvalidate(t) \/ ResetDevice(t)
    <3>1. pc[t] \notin PowerLabels /\ \E to \in CallerLabels \cup {"fan"} : Goto(t, pc[t], to)
      BY <2>3 DEF DisableZero, CloseZero, HeatRead, HeatWrite, HeatFails, ResetInvalidate,
         ResetDevice, Invoke, Goto, CallerLabels, PowerLabels
    <3>2. UNCHANGED tec /\ cache' \in {cache, Forgotten} /\ \A u \in Threads \ {t} : lvl'[u] = lvl[u]
      BY <1>1, <2>3 DEF DisableZero, CloseZero, HeatRead, HeatWrite, HeatFails,
         ResetInvalidate, ResetDevice, Invoke, Goto, devVars, locVars, TypeInv, TypeOK
    <3> QED BY <3>1, <3>2, Disjoint DEF Aside, Busy, Goto, TypeInv, TypeOK
  <2> QED BY <1>1, <2>1, <2>2, <2>3 DEF CallerStep
<1>2. ASSUME NEW t \in Callers, NEW o \in Ops, Call(t, o) PROVE Aside
  <2>1. pc[t] = "idle" /\ \E to \in CallerLabels : Goto(t, "idle", to)
    BY <1>2 DEF Call, Goto, CallerLabels
  <2> QED BY <1>2, <2>1, Kinds, Disjoint
          DEF Call, Aside, Busy, Goto, PowerLabels, devVars, TypeInv, TypeOK
<1>3. ASSUME NEW l \in Loops, LoopStep(l), ~SetTECPower(l) PROVE Aside
  <2> l \in Threads
    BY DEF Threads
  <2>1. /\ pc[l] \in LoopLabels /\ \E to \in LoopLabels \cup {"fan"} : Goto(l, pc[l], to)
        /\ UNCHANGED <<tec, cache>> /\ \A u \in Threads \ {l} : lvl'[u] = lvl[u]
    BY <1>3 DEF LoopStep, LoopCancelled, StepFails, StepSkips, StepDrives, GiveUp, RetireCheck,
                Retire, Invoke, Goto, LoopLabels, devVars, locVars, TypeInv, TypeOK
  <2> QED BY <2>1, Disjoint DEF Aside, Busy, Goto, TypeInv, TypeOK
<1>4. CASE Unplug \/ UNCHANGED vars
  BY <1>4 DEF Unplug, vars, Aside, devVars, locVars
<1> QED BY <1>1, <1>2, <1>3, <1>4, Kinds DEF Next, LoopStep, Threads

\* At most one thread is at the drive: the caller gets there only when the loop
\* it stopped has ended, and starts one only after it has left.
LEMMA OneAtTheDrive ==
  ASSUME LoneInv, LoneCaller, NEW t \in Threads, NEW u \in Threads,
         pc[t] \in PowerLabels, pc[u] \in PowerLabels
  PROVE  t = u
<1> USE DEF LoneInv
<1>1. ASSUME NEW c \in Callers, pc[c] \in PowerLabels, NEW l \in Loops, pc[l] \in PowerLabels
      PROVE  FALSE
  <2>1. cooler = NoLoop
    BY <1>1 DEF Handless, Letting
  <2>2. Live(l) /\ l # NoLoop
    BY <1>1, CoolingAssumption, Disjoint DEF CoolingAssumption, Live, Loops, NoLoop
  <2>3. PICK d \in Callers : Owner(d, l)
    BY <2>1, <2>2 DEF LifeInv, LoopsOwned
  <2>4. d = c
    BY DEF LoneCaller
  <2> QED BY <1>1, <2>3, <2>4, Disjoint DEF Owner, Taking, PowerLabels
<1>2. ASSUME NEW l \in Loops, NEW k \in Loops, Live(l), Live(k) PROVE l = k
  <2>1. l # NoLoop /\ k # NoLoop
    BY CoolingAssumption DEF CoolingAssumption, Loops, NoLoop
  <2>2. CASE \E d \in Callers : pc[d] \in Taking
    <3>1. PICK d \in Callers : pc[d] \in Taking
      BY <2>2
    <3>2. cooler = NoLoop
      BY <3>1 DEF Handless, Letting
    <3> QED BY <1>2, <2>1, <3>2 DEF LifeInv, LoopsOwned, Owner, LoneCaller
  <2>3. CASE ~\E d \in Callers : pc[d] \in Taking
    BY <1>2, <2>3 DEF LifeInv, LoopsOwned, Owner
  <2> QED BY <2>2, <2>3
<1>3. \A l \in Loops : pc[l] \in PowerLabels => Live(l)
  BY Disjoint DEF Live
<1> QED BY <1>1, <1>2, <1>3 DEF Threads, LoneCaller

\* A level the cache says is on the wire is in the register, but for the moment
\* between a write and its mark.
CacheKept ==
  /\ cache.levelOK => tec = cache.level \/ \E t \in Threads : pc[t] = "level_mark"
  /\ \A t \in Threads : pc[t] = "level_mark" => tec = lvl[t]

\* A step past the drive changes nothing the cache is about.
LEMMA CacheAside == ASSUME TypeInv, CacheKept, Aside PROVE CacheKept'
<1>1. cache'.level = cache.level /\ (cache'.levelOK => cache.levelOK)
  BY DEF Aside, Forgotten, TypeInv, TypeOK
<1> QED BY <1>1 DEF CacheKept, Aside, Busy, PowerLabels

\* A step of SetTECPower.  A write that fails makes the cache forget, or the
\* device does not answer at all.
LEMMA CachePower ==
  ASSUME LoneInv, LoneCaller, ForgetsFailedWrite \/ ~MayFail, CacheKept,
         NEW t \in Threads, SetTECPower(t)
  PROVE  CacheKept'
<1> USE DEF LoneInv, TypeInv
<1>1. \A u \in Threads : pc[u] \in PowerLabels => u = t
  BY OneAtTheDrive, PowerGoes
<1>2. \A u \in Threads \ {t} : pc'[u] = pc[u] /\ pc'[u] # "level_mark"
  <2>1. \A u \in Threads \ {t} : pc'[u] = pc[u]
    BY PowerGoes DEF Goto, TypeOK
  <2> QED BY <1>1, <2>1 DEF PowerLabels
<1>3. ret[t] # "level_mark" /\ lvl' = lvl /\ DOMAIN pc = Threads
  BY DEF TypeOK, SetTECPower, FanSkip, FanRead, FanWrite, FanMark, FanFails, LevelSkip,
         LevelWrite, LevelMark, LevelFails, locVars
<1>4. CASE FanSkip(t) \/ FanRead(t) \/ FanWrite(t) \/ FanMark(t) \/ LevelSkip(t)
  <2>1. /\ UNCHANGED tec /\ cache'.level = cache.level /\ cache'.levelOK = cache.levelOK
        /\ pc[t] # "level_mark" /\ pc'[t] # "level_mark"
    BY <1>3, <1>4 DEF FanSkip, FanRead, FanWrite, FanMark, LevelSkip, Goto, devVars, TypeOK
  <2> QED BY <1>2, <2>1 DEF CacheKept
<1>5. CASE FanFails(t)
  <2>1. /\ UNCHANGED tec /\ cache'.level = cache.level /\ (cache'.levelOK => cache.levelOK)
        /\ pc[t] # "level_mark" /\ pc'[t] # "level_mark"
    BY <1>3, <1>5 DEF FanFails, Goto, Forgotten, TypeOK
  <2> QED BY <1>2, <2>1 DEF CacheKept
<1>6. CASE LevelWrite(t)
  BY <1>2, <1>3, <1>6 DEF LevelWrite, Goto, CacheKept, TypeOK
<1>7. CASE LevelMark(t)
  <2>1. /\ UNCHANGED tec /\ tec = lvl[t] /\ cache'.level = lvl[t] /\ pc'[t] # "level_mark"
    BY <1>3, <1>7 DEF LevelMark, Goto, CacheKept, devVars, TypeOK
  <2> QED BY <1>2, <2>1 DEF CacheKept
<1>8. CASE LevelFails(t)
  <2>1. pc'[t] # "level_mark" /\ pc[t] # "level_mark"
    BY <1>3, <1>8 DEF LevelFails, Goto
  <2>2. CASE ForgetsFailedWrite
    BY <1>2, <1>8, <2>1, <2>2 DEF LevelFails, Forgotten, CacheKept, TypeOK
  <2>3. CASE ~MayFail
    <3>1. UNCHANGED tec /\ cache'.level = cache.level /\ (cache'.levelOK => cache.levelOK)
      BY <1>8, <2>3 DEF LevelFails, MayBreak, Forgotten, TypeOK
    <3> QED BY <1>2, <2>1, <3>1 DEF CacheKept
  <2> QED BY <2>2, <2>3
<1> QED BY <1>4, <1>5, <1>6, <1>7, <1>8 DEF SetTECPower

\* Without a device reset under the loop, and with a backend that forgets a write
\* that failed, the cache skips only what the FPGA holds.
THEOREM CacheTruthful ==
  ASSUME LoneCaller, "reset" \notin Ops, ForgetsFailedWrite \/ ~MayFail
  PROVE  Spec => []CacheHolds
<1>1. Init => LoneInv /\ CacheKept
  BY InitLone DEF Init, CacheKept
<1>2. LoneInv /\ CacheKept /\ [Next]_vars => (LoneInv /\ CacheKept)'
  <2> SUFFICES ASSUME LoneInv, CacheKept, [Next]_vars PROVE CacheKept'
    BY NextLone
  <2>1. ~\E t \in Callers : pc[t] = "reset"
    BY DEF LoneInv, OpsKept
  <2> QED BY <2>1, StepsAside, CacheAside, CachePower DEF LoneInv
<1>3. LoneInv /\ CacheKept => CacheHolds
  <2> SUFFICES ASSUME LoneInv, CacheKept, Quiet, cache.levelOK PROVE tec = cache.level
    BY DEF CacheHolds
  <2>1. \A t \in Threads : pc[t] # "level_mark"
    BY DEF Quiet, AllIdle, Threads
  <2> QED BY <2>1 DEF CacheKept
<1> QED BY <1>1, <1>2, <1>3, PTL DEF Spec

-----------------------------------------------------------------------------
(* One caller over a device that works: the drive after regulation is off *)

\* Without failures no loop counts one, none retires, and each goes on ticking
\* after it has driven its level.
UpKept ==
  /\ attached
  /\ \A l \in Loops : /\ fails[l] = 0
                      /\ pc[l] \notin {"retire", "retire_lock"}
                      /\ pc[l] \in PowerLabels => ret[l] = "tick"

\* Where a caller that is to zero the drive has not done so yet.
Zeroing == Taking \cup {"dis_check", "dis_zero", "fan", "fan_write", "fan_mark", "level"}

\* A driven TEC has a loop, or a caller on its way to the zero ...
ZeroOwed == tec # 0 => cooler # NoLoop \/ \E t \in Callers : pc[t] \in Zeroing

\* ... which no cached level makes it skip.
ZeroComes ==
  \A t \in Callers : pc[t] \in PowerLabels =>
    lvl[t] = 0 /\ (pc[t] # "level_mark" => ~cache.levelOK)

\* The inductive invariant of one caller over a device that works.
UpInv == LoneInv /\ UpKept /\ ZeroOwed /\ ZeroComes

\* As long as anything runs, the device answers.
LEMMA Answers ==
  ASSUME LoneInv, UpKept, ~MayFail,
         \/ \E t \in Callers : pc[t] # "idle"
         \/ \E l \in Loops : Live(l)
  PROVE  Reachable /\ ~MayBreak
<1>1. ~closed
  BY ClosedIsStill
<1> QED BY <1>1 DEF UpKept, Reachable, MayBreak

\* SetTECPower over a device that answers.
LEMMA PowerWorks ==
  ASSUME LoneInv, ~MayBreak, NEW t \in Threads, SetTECPower(t)
  PROVE  /\ \/ FanSkip(t) \/ FanRead(t) \/ FanWrite(t) \/ FanMark(t)
            \/ LevelSkip(t) \/ LevelWrite(t) \/ LevelMark(t)
         /\ UNCHANGED <<attached, lvl>>
         /\ fails' = fails \/ (t \in Loops /\ fails' = [fails EXCEPT ![t] = 0])
BY DEF SetTECPower, FanSkip, FanRead, FanWrite, FanMark, FanFails, LevelSkip, LevelWrite,
       LevelMark, LevelFails, Outcome, loopVars, locVars, usbVars

\* No step of a device that works is a failure, so none is counted.
LEMMA UpStep ==
  ASSUME LoneInv, UpKept, ~MayFail, ~MayUnplug, [Next]_vars
  PROVE  UpKept'
<1> USE DEF LoneInv, TypeInv
<1>1. ASSUME NEW t \in Callers, CallerStep(t) PROVE UpKept'
  <2> t \in Threads /\ t \notin Loops
    BY Kinds
  <2>1. ~MayBreak /\ pc[t] # "idle"
    BY <1>1, CallerGoes, Answers
  <2>2. UNCHANGED <<attached, fails>>
    <3>1. CASE SetTECPower(t)
      BY <2>1, <3>1, PowerWorks
    <3> QED BY <1>1, <3>1
      DEF CallerStep, EnableCheck, EnableStart, EnableFresh, EnableTarget, DisableTake,
          DisableCancel, DisableJoin, DisableCheck, DisableZero, CloseZero, CloseTransport,
          HeatRead, HeatWrite, HeatFails, ResetInvalidate, ResetDevice, loopVars, usbVars
  <2>3. \A l \in Loops : ret'[l] = ret[l]
    <3>1. ret' = ret \/ \E b : ret' = [ret EXCEPT ![t] = b]
      <4>1. CASE SetTECPower(t)
        BY <4>1, PowerGoes
      <4> QED BY <1>1, <4>1
      DEF CallerStep, EnableCheck, EnableStart, EnableFresh, EnableTarget, DisableTake,
          DisableCancel, DisableJoin, DisableCheck, DisableZero, CloseZero, CloseTransport,
          HeatRead, HeatWrite, HeatFails, ResetInvalidate, ResetDevice, Invoke, locVars
    <3> QED BY <3>1 DEF TypeOK, Threads
  <2>4. \A l \in Loops : pc'[l] = pc[l] \/ pc'[l] = "tick"
    BY <1>1, CallerGoes DEF Threads
  <2> QED BY <2>2, <2>3, <2>4 DEF UpKept, PowerLabels
<1>2. ASSUME NEW l \in Loops, LoopStep(l) PROVE UpKept'
  <2> l \in Threads
    BY DEF Threads
  <2>1. ~MayBreak
    BY <1>2, LoopGoes, Answers
  <2>2. ~Spent(l) /\ pc[l] \notin {"retire", "retire_lock"}
    BY CoolingAssumption DEF CoolingAssumption, UpKept, Spent
  <2>3. CASE SetTECPower(l)
    <3>1. UNCHANGED attached /\ (fails' = fails \/ fails' = [fails EXCEPT ![l] = 0])
      BY <2>1, <2>3, PowerWorks
    <3>2. /\ pc[l] \in PowerLabels /\ ret' = ret /\ \A k \in Loops \ {l} : pc'[k] = pc[k]
          /\ pc'[l] \in PowerLabels \cup {"tick"}
      BY <2>3, PowerGoes DEF UpKept, Goto, TypeOK, Threads
    <3> QED BY <3>1, <3>2 DEF UpKept, TypeOK, PowerLabels
  <2>4. CASE LoopCancelled(l) \/ StepSkips(l) \/ StepDrives(l)
    <3>1. UNCHANGED attached /\ (fails' = fails \/ fails' = [fails EXCEPT ![l] = 0])
      BY <2>4 DEF LoopCancelled, StepSkips, StepDrives, usbVars, loopVars
    <3>2. /\ ret' = ret \/ ret' = [ret EXCEPT ![l] = "tick"]
          /\ pc'[l] = "fan" => ret'[l] = "tick"
          /\ pc'[l] \in {"done", "tick", "fan"} /\ \A k \in Loops \ {l} : pc'[k] = pc[k]
      BY <2>4 DEF LoopCancelled, StepSkips, StepDrives, Invoke, Goto, locVars, TypeOK, Threads
    <3> QED BY <3>1, <3>2 DEF UpKept, TypeOK, PowerLabels, Threads
  <2> QED BY <1>2, <2>1, <2>2, <2>3, <2>4
          DEF LoopStep, StepFails, GiveUp, RetireCheck, Retire, Goto
<1>3. ASSUME NEW t \in Callers, NEW o \in Ops, Call(t, o) PROVE UpKept'
  BY <1>3, Kinds DEF Call, Goto, UpKept, loopVars, usbVars, TypeOK, Threads
<1>4. CASE Unplug \/ UNCHANGED vars
  BY <1>4 DEF Unplug, vars, UpKept, loopVars, usbVars, locVars
<1> QED BY <1>1, <1>2, <1>3, <1>4 DEF Next

\* A caller's step keeps the debt of a zero.
LEMMA ZeroCaller ==
  ASSUME UpInv, LoneCaller, ~MayFail, NEW t \in Callers, CallerStep(t)
  PROVE  ZeroOwed' /\ ZeroComes'
<1> USE DEF UpInv, LoneInv, TypeInv
<1> t \in Threads /\ t \notin Loops /\ \A u \in Callers : u = t
  BY Kinds DEF LoneCaller
<1>1. ~MayBreak
  BY CallerGoes, Answers
<1>2. CASE EnableFresh(t)
  <2>1. started + 1 \in Loops /\ started + 1 # NoLoop
    BY <1>2, CoolingAssumption DEF EnableFresh, TypeOK, CoolingAssumption, Loops, NoLoop
  <2>2. pc'[t] = "en_target" /\ cooler' # NoLoop
    BY <1>2, <2>1 DEF EnableFresh, TypeOK
  <2> QED BY <2>2 DEF ZeroOwed, ZeroComes, PowerLabels
<1>3. CASE EnableCheck(t) \/ EnableStart(t) \/ EnableTarget(t) \/ CloseTransport(t)
           \/ HeatRead(t) \/ HeatWrite(t) \/ HeatFails(t) \/ ResetInvalidate(t)
  <2>1. UNCHANGED <<tec, cooler>> /\ pc[t] \notin Zeroing /\ pc'[t] \notin PowerLabels
    BY <1>3 DEF EnableCheck, EnableStart, EnableTarget, CloseTransport, HeatRead, HeatWrite,
                HeatFails, ResetInvalidate, Goto, Zeroing, Taking, PowerLabels, devVars, camVars, TypeOK
  <2> QED BY <2>1 DEF ZeroOwed, ZeroComes
<1>4. CASE ResetDevice(t)
  <2>1. tec' = 0 /\ pc'[t] = "idle"
    BY <1>1, <1>4 DEF ResetDevice, Goto, TypeOK
  <2> QED BY <2>1 DEF ZeroOwed, ZeroComes, PowerLabels
<1>5. CASE DisableTake(t)
  <2>1. pc[t] = "dis_take" /\ UNCHANGED tec /\ pc'[t] \notin PowerLabels
        /\ (cooler # NoLoop => pc'[t] = "dis_cancel")
    BY <1>5 DEF DisableTake, Goto, AfterDisable, PowerLabels, devVars, TypeOK
  <2> QED BY <2>1 DEF ZeroOwed, ZeroComes, Zeroing, Taking
<1>6. CASE DisableCancel(t) \/ DisableJoin(t) \/ DisableCheck(t)
  <2>1. pc[t] \in Letting
    BY <1>6 DEF DisableCancel, DisableJoin, DisableCheck, Goto, Letting, Taking
  <2>2. cooler = NoLoop
    BY <2>1 DEF Handless
  <2>3. UNCHANGED tec /\ pc'[t] \in {"dis_join", "dis_check", "dis_zero"}
    BY <1>6, <2>2 DEF DisableCancel, DisableJoin, DisableCheck, Goto, devVars, TypeOK
  <2> QED BY <2>3 DEF ZeroOwed, ZeroComes, Zeroing, Taking, PowerLabels
<1>7. CASE DisableZero(t) \/ CloseZero(t)
  <2>1. pc'[t] = "fan" /\ lvl'[t] = 0
    BY <1>7 DEF DisableZero, CloseZero, Invoke, Goto, TypeOK
  <2>2. ~cache'.levelOK
    BY <1>7 DEF DisableZero, CloseZero, Forgotten, TypeOK
  <2> QED BY <2>1, <2>2 DEF ZeroOwed, ZeroComes, Zeroing
<1>8. CASE SetTECPower(t)
  <2>1. cooler = NoLoop /\ pc[t] \in PowerLabels
    BY <1>8, PowerGoes DEF Handless, Letting
  <2>2. \/ FanSkip(t) \/ FanRead(t) \/ FanWrite(t) \/ FanMark(t)
        \/ LevelSkip(t) \/ LevelWrite(t) \/ LevelMark(t)
    BY <1>1, <1>8, PowerWorks
  <2>3. lvl' = lvl /\ lvl[t] = 0
    BY <1>1, <1>8, <2>1, PowerWorks DEF ZeroComes
  <2>4. ret[t] \notin PowerLabels
    BY <2>1, Disjoint DEF LifeInv, LabelsKept
  <2>5. CASE FanSkip(t) \/ FanRead(t) \/ FanWrite(t) \/ FanMark(t)
    <3>1. pc'[t] \in {"fan_write", "fan_mark", "level"} /\ UNCHANGED tec
          /\ cache'.levelOK = cache.levelOK /\ pc[t] # "level_mark"
      BY <2>5 DEF FanSkip, FanRead, FanWrite, FanMark, Goto, devVars, TypeOK
    <3> QED BY <2>1, <2>3, <3>1 DEF ZeroOwed, ZeroComes, Zeroing
  <2>6. CASE LevelSkip(t)
    BY <2>1, <2>6 DEF LevelSkip, Goto, ZeroComes
  <2>7. CASE LevelWrite(t)
    BY <2>3, <2>7 DEF LevelWrite, Goto, ZeroOwed, ZeroComes, TypeOK
  <2>8. CASE LevelMark(t)
    <3>1. pc[t] = "level_mark" /\ pc'[t] = ret[t] /\ UNCHANGED tec
      BY <2>8 DEF LevelMark, Goto, devVars, TypeOK
    <3>2. tec = 0
      BY <2>1, <3>1 DEF ZeroOwed, Zeroing, Taking
    <3> QED BY <2>4, <3>1, <3>2 DEF ZeroOwed, ZeroComes
  <2> QED BY <2>2, <2>5, <2>6, <2>7, <2>8
<1> QED BY <1>2, <1>3, <1>4, <1>5, <1>6, <1>7, <1>8 DEF CallerStep

\* A loop's step too: a loop that runs is the handle's, or a caller is about to
\* end it, and none runs while a caller writes its zero.
LEMMA ZeroLoop ==
  ASSUME UpInv, LoneCaller, NEW l \in Loops, LoopStep(l)
  PROVE  ZeroOwed' /\ ZeroComes'
<1> USE DEF UpInv, LoneInv
<1>1. Live(l) /\ \A u \in Callers : pc'[u] = pc[u]
  BY LoopGoes, Kinds
<1>2. l = cooler \/ \E t \in Callers : pc[t] \in Taking
  BY <1>1 DEF LifeInv, LoopsOwned, Owner
<1>3. cooler' = cooler
  <2>1. CASE SetTECPower(l)
    BY <2>1, PowerGoes DEF Threads, lifeVars
  <2> QED BY <2>1 DEF LoopStep, LoopCancelled, StepFails, StepSkips, StepDrives, GiveUp,
                      RetireCheck, Retire, UpKept, Goto, camVars
<1>4. ZeroOwed'
  <2>1. l # NoLoop
    BY CoolingAssumption DEF CoolingAssumption, Loops, NoLoop
  <2> QED BY <1>1, <1>2, <1>3, <2>1 DEF ZeroOwed, Zeroing
<1>5. \A t \in Callers : pc[t] \notin PowerLabels
  <2> SUFFICES ASSUME NEW t \in Callers, pc[t] \in PowerLabels PROVE FALSE
    OBVIOUS
  <2>1. cooler = NoLoop /\ l # NoLoop
    BY CoolingAssumption DEF CoolingAssumption, Loops, NoLoop, Handless, Letting
  <2>2. \A u \in Callers : u = t
    BY DEF LoneCaller
  <2> QED BY <1>2, <2>1, <2>2 DEF Taking, PowerLabels
<1> QED BY <1>1, <1>4, <1>5 DEF ZeroComes

\* Every step of the system keeps it.
LEMMA NextUp ==
  ASSUME LoneCaller, ~MayFail, ~MayUnplug, UpInv, [Next]_vars
  PROVE  UpInv'
<1>1. LoneInv' /\ UpKept'
  BY NextLone, UpStep DEF UpInv
<1>2. ASSUME NEW t \in Callers, NEW o \in Ops, Call(t, o) PROVE ZeroOwed' /\ ZeroComes'
  <2>1. \A u \in Callers : u = t
    BY DEF LoneCaller
  <2>2. UNCHANGED <<tec, cooler>> /\ pc[t] = "idle" /\ pc'[t] \notin PowerLabels
    BY <1>2, Kinds DEF Call, Goto, PowerLabels, UpInv, LoneInv, TypeInv, TypeOK, devVars, camVars
  <2> QED BY <2>1, <2>2 DEF UpInv, ZeroOwed, ZeroComes, Zeroing, Taking
<1>3. CASE Unplug \/ UNCHANGED vars
  BY <1>1, <1>3 DEF Unplug, vars, UpInv, ZeroOwed, ZeroComes, devVars, camVars, locVars
<1> QED BY <1>1, <1>2, <1>3, ZeroCaller, ZeroLoop DEF UpInv, Next

\* At the start nothing is driven.
LEMMA InitUp == Init => UpInv
BY InitLone, Kinds
   DEF Init, UpInv, UpKept, ZeroOwed, ZeroComes, PowerLabels, Threads

\* Over a device that works, disabling and Close leave the drive at zero once the
\* loops have ended, and nothing turns it on again.
THEOREM OffIsOff ==
  ASSUME LoneCaller, ~MayFail, ~MayUnplug
  PROVE  Spec => []OffMeansZero
<1>1. UpInv => OffMeansZero
  <2> SUFFICES ASSUME UpInv, AllIdle, \A l \in Loops : ~Live(l) PROVE tec = 0
    BY DEF OffMeansZero
  <2>1. cooler = NoLoop
    BY CoolingAssumption
       DEF CoolingAssumption, UpInv, LoneInv, TypeInv, TypeOK, LifeInv, CoolerOnIsTrue, Loops, NoLoop
  <2>2. \A t \in Callers : pc[t] \notin Zeroing
    BY DEF AllIdle, Zeroing, Taking
  <2> QED BY <2>1, <2>2 DEF UpInv, ZeroOwed
<1>2. UpInv /\ [Next]_vars => UpInv'
  BY NextUp
<1> QED BY <1>1, <1>2, InitUp, PTL DEF Spec

-----------------------------------------------------------------------------
(* ... and the fan while it is driven *)

\* What the cache says of the fan is so, whoever is past the fan's write has it
\* as its level needs it, and a driven TEC is fanned but for the moment between
\* the fan's write and the drive's.
FanKept ==
  /\ cache.fanOK => flags.fan = cache.fan \/ \E t \in Threads : pc[t] = "fan_mark"
  /\ \A t \in Threads : pc[t] \in {"fan_mark", "level", "level_mark"} => flags.fan = Fanned(t)
  /\ tec # 0 => flags.fan \/ \E t \in Threads : pc[t] \in {"fan_mark", "level"}

\* Neither the heater, which shares the fan's register, nor a device reset.
OnlyCooling == Ops \subseteq {"enable", "disable", "close"}

\* A step past the drive writes no flag either.
LEMMA FlagsAside ==
  ASSUME LoneInv, OnlyCooling, [Next]_vars, \A t \in Threads : ~SetTECPower(t)
  PROVE  Aside /\ UNCHANGED flags
<1>1. \A t \in Callers : pc[t] \notin {"heat_read", "heat_write", "reset_inval", "reset"}
  BY DEF OnlyCooling, LoneInv, OpsKept
<1>2. Aside
  BY <1>1, StepsAside DEF LoneInv
<1>3. ASSUME NEW t \in Callers, CallerStep(t) PROVE UNCHANGED flags
  BY <1>1, <1>3, Kinds DEF CallerStep, EnableCheck, EnableStart, EnableFresh, EnableTarget, DisableTake,
          DisableCancel, DisableJoin, DisableCheck, DisableZero, CloseZero, CloseTransport,
          HeatRead, HeatWrite, HeatFails, ResetInvalidate, ResetDevice, Goto, devVars
<1>4. ASSUME NEW l \in Loops, LoopStep(l) PROVE UNCHANGED flags
  BY <1>4 DEF LoopStep, LoopCancelled, StepFails, StepSkips, StepDrives, GiveUp, RetireCheck,
              Retire, devVars, Threads
<1>5. (\E t \in Callers, o \in Ops : Call(t, o)) \/ Unplug \/ UNCHANGED vars => UNCHANGED flags
  BY DEF Call, Unplug, vars, devVars
<1> QED BY <1>2, <1>3, <1>4, <1>5 DEF Next

\* A step past the drive changes nothing the fan depends on.
LEMMA FanAside ==
  ASSUME TypeInv, FanKept, Aside, UNCHANGED flags
  PROVE  FanKept'
<1>1. cache'.fan = cache.fan /\ (cache'.fanOK => cache.fanOK)
  BY DEF Aside, Forgotten, TypeInv, TypeOK
<1>2. \A u \in Threads : pc[u] \in Busy \/ pc'[u] \in Busy => Fanned(u)' = Fanned(u)
  BY DEF Aside, Fanned
<1>3. {"fan_mark", "level", "level_mark"} \subseteq Busy
  BY DEF Busy, PowerLabels
<1>4. cache'.fanOK => flags'.fan = cache'.fan \/ \E t \in Threads : pc'[t] = "fan_mark"
  BY <1>1, <1>3 DEF FanKept, Aside
<1>5. \A t \in Threads : pc'[t] \in {"fan_mark", "level", "level_mark"} => flags'.fan = Fanned(t)'
  BY <1>2, <1>3 DEF FanKept, Aside
<1>6. tec' # 0 => flags'.fan \/ \E t \in Threads : pc'[t] \in {"fan_mark", "level"}
  BY <1>3 DEF FanKept, Aside
<1> QED BY <1>4, <1>5, <1>6 DEF FanKept

\* A step of SetTECPower: the fan is on before the drive, and a level that is
\* skipped was driven with the fan as it is.
LEMMA FanPower ==
  ASSUME UpInv, LoneCaller, ~MayFail, CacheKept, FanKept, NEW t \in Threads, SetTECPower(t)
  PROVE  FanKept'
<1> USE DEF UpInv, LoneInv, TypeInv
<1>1. \A u \in Threads : pc[u] \in PowerLabels => u = t
  BY OneAtTheDrive, PowerGoes
<1>2. pc[t] \in PowerLabels /\ \A u \in Threads \ {t} : pc'[u] = pc[u]
  BY PowerGoes DEF Goto, TypeOK
<1>3. \A u \in Threads \ {t} : /\ pc[u] \notin {"fan_mark", "level", "level_mark"}
                               /\ pc'[u] \notin {"fan_mark", "level", "level_mark"}
  BY <1>1, <1>2 DEF PowerLabels
<1>4. ~MayBreak
  <2>1. t \in Callers \/ t \in Loops
    BY DEF Threads
  <2>2. pc[t] # "idle" /\ Live(t)
    BY <1>2, Disjoint DEF Live, PowerLabels
  <2> QED BY <2>1, <2>2, Answers
<1>5. UNCHANGED lvl /\ Fanned(t)' = Fanned(t)
      /\ ret[t] \notin {"fan_mark", "level", "level_mark"}
  BY <1>4, PowerWorks DEF Fanned, TypeOK
<1>6. \/ FanSkip(t) \/ FanRead(t) \/ FanWrite(t) \/ FanMark(t)
      \/ LevelSkip(t) \/ LevelWrite(t) \/ LevelMark(t)
  BY <1>4, PowerWorks
<1>7. lvl[t] \in Nat /\ tec \in Nat
  BY CoolingAssumption DEF CoolingAssumption, TypeOK, Levels
<1> lvl[t] # 0 => Fanned(t)
  BY <1>7 DEF Fanned
<1>8. CASE FanSkip(t)
  <2>1. /\ pc[t] = "fan" /\ pc'[t] = "level" /\ UNCHANGED <<flags, tec, cache>>
        /\ cache.fanOK /\ cache.fan = Fanned(t)
    BY <1>8 DEF FanSkip, Goto, devVars, TypeOK
  <2>2. flags.fan = Fanned(t)
    BY <1>3, <2>1 DEF FanKept
  <2> QED BY <1>3, <1>5, <2>1, <2>2 DEF FanKept
<1>9. CASE FanRead(t)
  <2>1. pc[t] = "fan" /\ pc'[t] = "fan_write" /\ UNCHANGED <<flags, tec, cache>>
    BY <1>9 DEF FanRead, Goto, devVars, TypeOK
  <2> QED BY <1>3, <1>5, <2>1 DEF FanKept
<1>10. CASE FanWrite(t)
  <2>1. pc'[t] = "fan_mark" /\ flags'.fan = Fanned(t)
    BY <1>10 DEF FanWrite, FlagsWithFan, Goto, TypeOK
  <2> QED BY <1>3, <1>5, <2>1 DEF FanKept
<1>11. CASE FanMark(t)
  <2>1. /\ pc[t] = "fan_mark" /\ pc'[t] = "level" /\ UNCHANGED <<flags, tec>>
        /\ cache'.fan = Fanned(t)
    BY <1>11 DEF FanMark, Goto, devVars, TypeOK
  <2> QED BY <1>3, <1>5, <2>1 DEF FanKept
<1>12. CASE LevelSkip(t)
  <2>1. /\ pc[t] = "level" /\ pc'[t] = ret[t] /\ UNCHANGED <<flags, tec, cache>>
        /\ cache.levelOK /\ cache.level = lvl[t]
    BY <1>12 DEF LevelSkip, Goto, devVars, TypeOK
  <2>2. tec = lvl[t]
    BY <1>3, <2>1 DEF CacheKept
  <2>3. flags.fan = Fanned(t)
    BY <2>1 DEF FanKept
  <2>4. tec # 0 => flags.fan
    BY <2>2, <2>3
  <2> QED BY <1>3, <1>5, <2>1, <2>4 DEF FanKept
<1>13. CASE LevelWrite(t)
  <2>1. pc[t] = "level" /\ pc'[t] = "level_mark" /\ UNCHANGED <<flags, cache>> /\ tec' = lvl[t]
    BY <1>13 DEF LevelWrite, Goto, TypeOK
  <2>2. flags.fan = Fanned(t)
    BY <2>1 DEF FanKept
  <2>3. tec' # 0 => flags.fan
    BY <2>1, <2>2
  <2> QED BY <1>3, <1>5, <2>1, <2>2, <2>3 DEF FanKept
<1>14. CASE LevelMark(t)
  <2>1. /\ pc[t] = "level_mark" /\ pc'[t] = ret[t] /\ UNCHANGED <<flags, tec>>
        /\ cache'.fan = cache.fan /\ cache'.fanOK = cache.fanOK
    BY <1>14 DEF LevelMark, Goto, devVars, TypeOK
  <2> QED BY <1>3, <1>5, <2>1 DEF FanKept
<1> QED BY <1>6, <1>8, <1>9, <1>10, <1>11, <1>12, <1>13, <1>14

\* Over a device that works the TEC's hot side is fanned whenever the TEC is
\* driven, at every moment no SetTECPower is in progress, through every swap of
\* loops and with every write the cache saves.
THEOREM FanRuns ==
  ASSUME LoneCaller, ~MayFail, ~MayUnplug, OnlyCooling
  PROVE  Spec => []FanWhileDriven
<1> DEFINE Inv == UpInv /\ CacheKept /\ FanKept
<1>1. Init => Inv
  BY InitUp, Kinds DEF Init, CacheKept, FanKept, Threads
<1>2. Inv /\ [Next]_vars => Inv'
  <2> SUFFICES ASSUME Inv, [Next]_vars PROVE CacheKept' /\ FanKept'
    BY NextUp
  <2>1. CASE \E t \in Threads : SetTECPower(t)
    BY <2>1, CachePower, FanPower DEF UpInv
  <2>2. CASE \A t \in Threads : ~SetTECPower(t)
    BY <2>2, FlagsAside, CacheAside, FanAside DEF UpInv, LoneInv
  <2> QED BY <2>1, <2>2
<1>3. Inv => FanWhileDriven
  <2> SUFFICES ASSUME Inv, Quiet, tec > 0 PROVE flags.fan
    BY DEF FanWhileDriven
  <2>1. \A t \in Threads : pc[t] \notin {"fan_mark", "level"}
    BY DEF Quiet, AllIdle, Threads
  <2>2. tec # 0
    BY CoolingAssumption DEF CoolingAssumption, UpInv, LoneInv, TypeInv, TypeOK, Levels
  <2> QED BY <2>1, <2>2 DEF FanKept
<1> HIDE DEF Inv
<1> QED BY <1>1, <1>2, <1>3, PTL DEF Spec
=============================================================================
