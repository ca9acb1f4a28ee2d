------------------------------ MODULE Hotplug ------------------------------
(***************************************************************************)
(* One subscription of Hotplug, on each platform that has notifications:   *)
(* the goroutine, run-loop thread or system callback that sends events on  *)
(* the channel, and the goroutine that ends it all when the context does.  *)
(*                                                                         *)
(* What the systems' calls do is their users' view of them: two questions  *)
(* the code depends on an answer to are constants (CloseWakes, StopSticks).*)
(*                                                                         *)
(* An operator whose name starts with Faulty is a mutated form of the      *)
(* definition after it.                                                    *)
(***************************************************************************)
EXTENDS Naturals

CONSTANTS
  Hosts,      \* subset of {"linux", "darwin", "windows"}
  Capacity,   \* of the channel
  MaxEvents,  \* bound: notifications
  CloseWakes, \* closing a netlink socket ends a Recvfrom that waits on it
  MayReuse,   \* the number of a closed socket may be given to another descriptor
  StopSticks  \* CFRunLoopStop before CFRunLoopRun makes that return at once

VARIABLES
  host,
  cancelled,  \* the context is done
  queue,      \* events in the channel
  open,       \* the channel is
  registered, \* hotplugSubs, hotplugWinSubs: the handle is in the map
  socket,     \* linux: "open", "closed", or "reused" for another descriptor
  serve,      \* the thread that sends: where it is
  stop,       \* the goroutine that waits for the context: where it is
  published,  \* darwin: h->rl
  stopped,    \* darwin: CFRunLoopStop has been called and not been consumed
  freed,      \* darwin: asicam_hp_free has run
  panicked,   \* a send on a closed channel, or a second close
  foreign,    \* history: a read was made of another's descriptor
  events

vars == <<host, cancelled, queue, open, registered, socket, serve, stop, published, stopped,
          freed, panicked, foreign, events>>
macVars == <<published, stopped, freed>>

Mapped == host \in {"darwin", "windows"}

\* hotplug has returned the channel; on macOS the devices already attached have
\* been reported before that, as far as they fit.
Init ==
  /\ host \in Hosts
  /\ queue \in IF host = "darwin" THEN 0 .. Capacity ELSE {0}
  /\ serve = (CASE host = "linux" -> "recv" [] host = "darwin" -> "start" [] host = "windows" -> "serving")
  /\ stop = "wait" /\ socket = "open" /\ open = TRUE
  /\ registered = Mapped
  /\ cancelled = FALSE /\ published = FALSE /\ stopped = FALSE /\ freed = FALSE
  /\ panicked = FALSE /\ foreign = FALSE
  /\ events = 0

-----------------------------------------------------------------------------
(* The caller and the system *)

Cancel ==
  /\ ~cancelled /\ cancelled' = TRUE
  /\ UNCHANGED <<host, queue, open, registered, socket, serve, stop, macVars, panicked, foreign, events>>

Consume ==
  /\ queue > 0 /\ queue' = queue - 1
  /\ UNCHANGED <<host, cancelled, open, registered, socket, serve, stop, macVars, panicked, foreign, events>>

Reuse ==
  /\ MayReuse /\ socket = "closed" /\ socket' = "reused"
  /\ UNCHANGED <<host, cancelled, queue, open, registered, serve, stop, macVars, panicked, foreign, events>>

\* A uevent of a camera, or of something else; the datagram of a socket that was
\* closed under the read still ends that read.
Uevent ==
  /\ serve = "blocked" /\ events < MaxEvents
  /\ events' = events + 1
  /\ serve' \in {"send", "recv"}
  /\ UNCHANGED <<host, cancelled, queue, open, registered, socket, stop, macVars, panicked, foreign>>

Notify ==
  /\ Mapped /\ serve = "serving" /\ events < MaxEvents
  /\ events' = events + 1
  /\ serve' = "lookup"
  /\ UNCHANGED <<host, cancelled, queue, open, registered, socket, stop, macVars, panicked, foreign>>


-----------------------------------------------------------------------------
(* The thread that sends *)

CloseChannel == open' = FALSE /\ panicked' = (panicked \/ ~open)
Deliver      == panicked' = (panicked \/ ~open) /\ queue' = IF queue < Capacity THEN queue + 1 ELSE queue

\* linux: the reader's return closes the channel.
Return == serve' = "end" /\ CloseChannel

\* Any other error of the read, such as an overrun of the socket's buffer.
RecvError ==
  /\ serve = "blocked" /\ Return
  /\ UNCHANGED <<host, cancelled, queue, registered, socket, stop, macVars, foreign, events>>

Recv ==
  /\ serve = "recv"
  /\ \/ socket = "closed" /\ Return /\ UNCHANGED foreign   \* EBADF
     \/ /\ socket # "closed" /\ serve' = "blocked"
        /\ foreign' = (foreign \/ socket = "reused")
        /\ UNCHANGED <<open, panicked>>
  /\ UNCHANGED <<host, cancelled, queue, registered, socket, stop, macVars, events>>

Woken ==
  /\ serve = "blocked" /\ socket # "open" /\ ~foreign /\ CloseWakes
  /\ Return
  /\ UNCHANGED <<host, cancelled, queue, registered, socket, stop, macVars, foreign, events>>

\* linux waits for room or for the context, and either may be taken.
Send ==
  /\ host = "linux" /\ serve = "send"
  /\ \/ queue < Capacity /\ Deliver /\ serve' = "recv" /\ UNCHANGED open
     \/ cancelled /\ Return /\ UNCHANGED queue
  /\ UNCHANGED <<host, cancelled, registered, socket, stop, macVars, foreign, events>>

\* deliverHotplug and hotplugWinCallback: the channel is looked up under the lock
\* and sent on after it; a full one drops the event.
Lookup ==
  /\ serve = "lookup"
  /\ serve' = IF registered THEN "post" ELSE "serving"
  /\ UNCHANGED <<host, cancelled, queue, open, registered, socket, stop, macVars, panicked, foreign, events>>

Post ==
  /\ serve = "post"
  /\ Deliver
  /\ serve' = "serving"
  /\ UNCHANGED <<host, cancelled, open, registered, socket, stop, macVars, foreign, events>>

\* asicam_hp_run: the loop is published before it runs, ...
Publish ==
  /\ serve = "start"
  /\ published' = TRUE /\ serve' = "run"
  /\ UNCHANGED <<host, cancelled, queue, open, registered, socket, stop, stopped, freed, panicked, foreign, events>>

\* ... and a stop that came in between may be lost.
RunLoop ==
  /\ serve = "run"
  /\ serve' = IF stopped /\ StopSticks THEN "end" ELSE "serving"
  /\ stopped' = FALSE
  /\ UNCHANGED <<host, cancelled, queue, open, registered, socket, stop, published, freed, panicked, foreign, events>>

LeaveLoop ==
  /\ host = "darwin" /\ serve = "serving" /\ stopped
  /\ serve' = "end"
  /\ UNCHANGED <<host, cancelled, queue, open, registered, socket, stop, macVars, panicked, foreign, events>>

-----------------------------------------------------------------------------
(* The goroutine that waits for the context *)

CloseSocket ==
  /\ host = "linux" /\ stop = "wait" /\ cancelled
  /\ socket' = "closed" /\ stop' = "end"
  /\ UNCHANGED <<host, cancelled, queue, open, registered, serve, macVars, panicked, foreign, events>>

\* asicam_hp_stop, which spins until the loop is published
StopLoop ==
  /\ host = "darwin" /\ stop = "wait" /\ cancelled /\ published
  /\ stopped' = TRUE /\ stop' = "join"
  /\ UNCHANGED <<host, cancelled, queue, open, registered, socket, serve, published, freed, panicked, foreign, events>>

FaultyJoinLoop ==  \* does not wait for the loop
  /\ stop = "join"
  /\ freed' = TRUE /\ stop' = "forget"
  /\ UNCHANGED <<host, cancelled, queue, open, registered, socket, serve, published, stopped, panicked, foreign, events>>

JoinLoop ==
  /\ stop = "join" /\ serve = "end"
  /\ freed' = TRUE /\ stop' = "forget"
  /\ UNCHANGED <<host, cancelled, queue, open, registered, socket, serve, published, stopped, panicked, foreign, events>>

\* CM_Unregister_Notification waits for the callbacks in flight.
Unregister ==
  /\ host = "windows" /\ stop = "wait" /\ cancelled /\ serve = "serving"
  /\ serve' = "end" /\ stop' = "forget"
  /\ UNCHANGED <<host, cancelled, queue, open, registered, socket, macVars, panicked, foreign, events>>

Forget ==
  /\ stop = "forget"
  /\ registered' = FALSE /\ stop' = "close"
  /\ UNCHANGED <<host, cancelled, queue, open, socket, serve, macVars, panicked, foreign, events>>

Close ==
  /\ stop = "close"
  /\ CloseChannel /\ stop' = "end"
  /\ UNCHANGED <<host, cancelled, queue, registered, socket, serve, macVars, foreign, events>>

Internal ==
  \/ Recv \/ Woken \/ Send \/ Lookup \/ Post \/ Publish \/ RunLoop \/ LeaveLoop
  \/ CloseSocket \/ StopLoop \/ JoinLoop \/ Unregister \/ Forget \/ Close

Environment == Cancel \/ Consume \/ Reuse \/ Uevent \/ Notify \/ RecvError

Next == Internal \/ Environment

Spec == Init /\ [][Next]_vars

-----------------------------------------------------------------------------
(* Properties *)

\* Nobody sends on a closed channel or closes it twice, and the notification
\* port outlives the loop that serves it.
NobodyLate == ~panicked /\ (freed => serve = "end")

\* A subscription whose context is done ends: when the code can do no more by
\* itself, the channel is closed.
EndsWithContext == cancelled /\ ~ENABLED Internal => ~open

\* A reader reads its own socket.
OwnSocket == ~foreign

\* It ends for no other reason.
LastsAsLong == ~open => cancelled

\* The guards of Internal's actions, none left out.
MayStep ==
  \/ serve \in {"recv", "lookup", "post", "start", "run"}
  \/ serve = "blocked" /\ socket # "open" /\ ~foreign /\ CloseWakes
  \/ host = "linux" /\ serve = "send" /\ (queue < Capacity \/ cancelled)
  \/ host = "darwin" /\ serve = "serving" /\ stopped
  \/ stop = "wait" /\ cancelled /\ \/ host = "linux"
                                   \/ host = "darwin" /\ published
                                   \/ host = "windows" /\ serve = "serving"
  \/ stop = "join" /\ serve = "end"
  \/ stop \in {"forget", "close"}

GuardsComplete == MayStep <=> ENABLED Internal

SubscriptionHolds == NobodyLate /\ EndsWithContext /\ GuardsComplete
=============================================================================
