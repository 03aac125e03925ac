---------------------------- MODULE AdaptersProofs ----------------------------
(***************************************************************************)
(* Proofs about the adapters' dealings with their desktops, for every      *)
(* number of controllers, presses, keys and events.                        *)
(*                                                                         *)
(* Remote input: what is down at the application is what the adapter will  *)
(* release.  The adapter binds a press when it goes down and forgets it    *)
(* when it goes up, so the invariant needs that a press goes down once,    *)
(* and that the events of two controllers are never in the target's queue  *)
(* together: a cleanup is the last thing a controller leaves there.        *)
(*                                                                         *)
(* Windows and macOS: the window acted on is the one meant.  On Windows    *)
(* pids and handles are used again, so the proof follows who lived when    *)
(* somebody was born, and which number a mark stands for; on macOS it      *)
(* follows a call through its places.                                      *)
(*                                                                         *)
(* KWin: a command is at one place at a time, the portal's lock is held    *)
(* over the start of a session, the tree ps shows is the launch's while    *)
(* no id is used again, and every byte of a picture has its place.         *)
(***************************************************************************)
EXTENDS MCAdapters, TLAPS, FiniteSetTheorems, SequenceTheorems, WellFoundedInduction

-----------------------------------------------------------------------------
(* The state of remote input.                                              *)

Spots == Points \union {Outside}
KeyStrokes == [kind: {"key"}, press: Presses, action: {"down", "repeat", "up"}, key: Codes]
Clicks == [kind: {"button"}, action: {"down", "up"}, at: Spots]
Moves == [kind: {"motion", "scroll"}, at: Spots]
Others == [kind: {"text", "logical", "cleanup"}]
Works == KeyStrokes \union Clicks \union Moves \union Others

Bindings == UNION {[S -> Codes] : S \in SUBSET Presses}
Targets == [holder: Controllers \union {NoOne}, queue: Seq(Works), sent: 0..MaxSent, used: SUBSET Presses]
Executors == [run: {"up", "stop", "over"}, accept: {"idle", "focus", "over"},
              poll: {"idle", "end_drive", "complete", "over"}, kept: SUBSET (Presses \union {"button"})]
Helds == [keys: Bindings, buttons: {{}} \union {{x} : x \in Points}, driven: BOOLEAN]
Downs == [keys: SUBSET Codes, button: BOOLEAN, pointer: Points,
          loose: SUBSET (Codes \union {"button"}), strayed: BOOLEAN]
Worlds == [alive: BOOLEAN, pid: BOOLEAN, ax: BOOLEAN, faults: 0..MaxFaults]
Conns == [Controllers -> {"none", "queued", "served", "admitted", "gone"}]

\* At most one button is down, at a point of the window.
InputType ==
  /\ conn \in Conns /\ target \in Targets /\ exec \in Executors
  /\ held \in Helds /\ app \in Downs /\ world \in Worlds

IsDown(e) == e.kind = "key" /\ e.action = "down"

\* A press that waits to go down is used up, is not bound yet, and waits once.
PressRule(q, used, keys) ==
  /\ DOMAIN keys \subseteq used
  /\ \A n \in 1..Len(q) : IsDown(q[n]) => q[n].press \in used /\ q[n].press \notin DOMAIN keys
  /\ \A m, n \in 1..Len(q) : IsDown(q[m]) /\ IsDown(q[n]) /\ q[m].press = q[n].press => m = n

\* The target's queue holds keys of its holder only, and a cleanup at the end after the
\* holder has gone; with no holder it is empty.
QueueRule(q, holder, cn) ==
  /\ \A c \in Controllers : cn[c] = "admitted" => holder = c
  /\ holder = NoOne => q = <<>>
  /\ \A n \in 1..Len(q) : q[n].kind = "key" => OwnerOf(q[n].press) = holder
  /\ \A n \in 1..Len(q) : q[n].kind = "cleanup" => n = Len(q) /\ \A c \in Controllers : cn[c] # "admitted"

\* A bound press is of the holder, or was left over by the cleanup before; while a cleanup
\* runs, it is at the head of the queue and what is still bound is left over.
HolderRule(q, holder, poll, kept, keys) ==
  /\ \A p \in DOMAIN keys : OwnerOf(p) = holder \/ p \in kept
  /\ poll \in {"end_drive", "complete"} =>
       q # <<>> /\ q[1].kind = "cleanup" /\ DOMAIN keys \subseteq kept

InputInv ==
  /\ InputType
  /\ PressRule(target.queue, target.used, held.keys)
  /\ QueueRule(target.queue, target.holder, conn)
  /\ HolderRule(target.queue, target.holder, exec.poll, exec.kept, held.keys)
  /\ DownIsHeld /\ HeldPointIsThePointer

-----------------------------------------------------------------------------
(* The map of bound presses.                                               *)

\* A press that is bound (key_stroke, insert) keeps every other press and its code, and adds its own.
LEMMA BindAdds ==
  ASSUME NEW f \in Bindings, NEW p \in Presses, NEW k \in Codes
  PROVE  /\ Bind(f, p, k) \in Bindings
         /\ DOMAIN Bind(f, p, k) = DOMAIN f \union {p}
         /\ p \notin DOMAIN f => \A c \in Range(f) \union {k} : c \in Range(Bind(f, p, k))
<1>1. PICK S \in SUBSET Presses : f \in [S -> Codes] BY DEF Bindings
<1>2. Bind(f, p, k) \in [S \union {p} -> Codes] /\ S \union {p} \in SUBSET Presses BY <1>1 DEF Bind
<1>3. Bind(f, p, k) \in Bindings BY <1>2 DEF Bindings
<1>4. DOMAIN Bind(f, p, k) = DOMAIN f \union {p} BY DEF Bind
<1>5. p \notin DOMAIN f => \A c \in Range(f) \union {k} : c \in Range(Bind(f, p, k))
  BY <1>4 DEF Bind, Range
<1> QED BY <1>3, <1>4, <1>5

\* A press that goes up is forgotten (key_stroke, remove), and at most its own code with it.
LEMMA UnbindRemoves ==
  ASSUME NEW f \in Bindings, NEW p \in Presses
  PROVE  /\ Unbind(f, p) \in Bindings
         /\ DOMAIN Unbind(f, p) = DOMAIN f \ {p}
         /\ \A c \in Range(f) : c \in Range(Unbind(f, p)) \/ (p \in DOMAIN f /\ c = f[p])
<1>1. PICK S \in SUBSET Presses : f \in [S -> Codes] BY DEF Bindings
<1>2. Unbind(f, p) \in [S \ {p} -> Codes] /\ S \ {p} \in SUBSET Presses BY <1>1 DEF Unbind, Restrict
<1>3. Unbind(f, p) \in Bindings BY <1>2 DEF Bindings
<1>4. DOMAIN Unbind(f, p) = DOMAIN f \ {p} BY DEF Unbind, Restrict
<1>5. \A c \in Range(f) : c \in Range(Unbind(f, p)) \/ (p \in DOMAIN f /\ c = f[p])
  <2> SUFFICES ASSUME NEW x \in DOMAIN f, ~(p \in DOMAIN f /\ f[x] = f[p])
               PROVE  f[x] \in Range(Unbind(f, p))
    BY DEF Range
  <2>1. x \in DOMAIN Unbind(f, p) /\ Unbind(f, p)[x] = f[x] BY <1>4 DEF Unbind, Restrict
  <2> QED BY <2>1 DEF Range
<1> QED BY <1>3, <1>4, <1>5

\* Nothing is bound in the map that release_held leaves.
LEMMA EmptyBinds ==
  NothingHeld.keys \in Bindings /\ DOMAIN NothingHeld.keys = {} /\ Range(NothingHeld.keys) = {}
<1>1. NothingHeld.keys \in [{} -> Codes] BY DEF NothingHeld
<1>2. NothingHeld.keys \in Bindings BY <1>1 DEF Bindings
<1> QED BY <1>1, <1>2 DEF Range

\* A bound press is a press and its code a code.
LEMMA BindingsAre ==
  ASSUME NEW f \in Bindings
  PROVE  DOMAIN f \subseteq Presses /\ Range(f) \subseteq Codes /\ \A p \in DOMAIN f : f[p] \in Codes
BY DEF Bindings, Range

-----------------------------------------------------------------------------
(* The target's queue.                                                     *)

\* What an event or a cleanup at the end of the queue does to its elements.
LEMMA Appends ==
  ASSUME NEW q \in Seq(Works), NEW e \in Works
  PROVE  /\ Append(q, e) \in Seq(Works) /\ Append(q, e) # <<>> /\ Len(Append(q, e)) = Len(q) + 1
         /\ \A n \in 1..Len(Append(q, e)) :
              (n \in 1..Len(q) /\ Append(q, e)[n] = q[n]) \/ (n = Len(q) + 1 /\ Append(q, e)[n] = e)
         /\ q # <<>> => Append(q, e)[1] = q[1]
<1>1. Append(q, e) \in Seq(Works) /\ Len(Append(q, e)) = Len(q) + 1 /\ Len(q) \in Nat OBVIOUS
<1>2. \A n \in 1..Len(q) : Append(q, e)[n] = q[n] OBVIOUS
<1>3. Append(q, e)[Len(q) + 1] = e OBVIOUS
<1>4. Append(q, e) # <<>> BY <1>1
<1>5. q # <<>> => 1 \in 1..Len(q) OBVIOUS
<1> QED BY <1>1, <1>2, <1>3, <1>4, <1>5

\* The queue after the executor took its head.
LEMMA Takes ==
  ASSUME NEW q \in Seq(Works), q # <<>>
  PROVE  /\ Tail(q) \in Seq(Works) /\ Len(Tail(q)) = Len(q) - 1 /\ q[1] \in Works /\ Head(q) = q[1]
         /\ \A n \in 1..Len(Tail(q)) : n + 1 \in 1..Len(q) /\ Tail(q)[n] = q[n + 1]
<1>1. Tail(q) \in Seq(Works) /\ Len(Tail(q)) = Len(q) - 1 /\ Len(q) \in Nat OBVIOUS
<1>2. 1 \in 1..Len(q) /\ Head(q) = q[1] OBVIOUS
<1>3. q[1] \in Works BY <1>2
<1>4. \A n \in 1..Len(Tail(q)) : Tail(q)[n] = q[n + 1] OBVIOUS
<1>5. \A n \in 1..Len(Tail(q)) : n + 1 \in 1..Len(q) BY <1>1
<1> QED BY <1>1, <1>2, <1>3, <1>4, <1>5

\* After its last element the queue is empty.
LEMMA LastTaken ==
  ASSUME NEW q \in Seq(Works), Len(q) = 1
  PROVE  Tail(q) = <<>>
<1>1. q # <<>> OBVIOUS
<1>2. Tail(q) \in Seq(Works) /\ Len(Tail(q)) = 0 BY <1>1, Takes
<1>3. \A w \in Seq(Works) : Len(w) = 0 => w = <<>> OBVIOUS
<1> QED BY <1>2, <1>3

\* A controller's event joins the queue: its press, if it goes down, for the first time.
LEMMA PressSent ==
  ASSUME NEW q \in Seq(Works), NEW e \in Works, NEW used, NEW used2, NEW keys,
         PressRule(q, used, keys), used \subseteq used2,
         IsDown(e) => e.press \notin used /\ e.press \in used2
  PROVE  PressRule(Append(q, e), used2, keys)
<1> DEFINE a == Append(q, e)
<1>1. \A n \in 1..Len(a) : (n \in 1..Len(q) /\ a[n] = q[n]) \/ (n = Len(q) + 1 /\ a[n] = e) BY Appends
<1>2. Len(q) \in Nat OBVIOUS
<1> HIDE DEF a
<1>3. \A n \in 1..Len(a) : IsDown(a[n]) => a[n].press \in used2 /\ a[n].press \notin DOMAIN keys
  BY <1>1 DEF PressRule
<1>4. ASSUME NEW m \in 1..Len(a), NEW n \in 1..Len(a), IsDown(a[m]), IsDown(a[n]), a[m].press = a[n].press
      PROVE  m = n
  BY <1>1, <1>4 DEF PressRule
<1> QED BY <1>3, <1>4 DEF PressRule, a

\* A cleanup is no press.
LEMMA PressStays ==
  ASSUME NEW q \in Seq(Works), NEW used, NEW keys, PressRule(q, used, keys)
  PROVE  PressRule(Append(q, Cleanup), used, keys)
<1>1. Cleanup \in Works /\ ~IsDown(Cleanup) BY DEF Cleanup, Works, Others, IsDown
<1> QED BY <1>1, PressSent

\* The head of the queue is executed: what it binds waits no longer, what it forgets was used.
LEMMA PressDone ==
  ASSUME NEW q \in Seq(Works), q # <<>>, NEW used, NEW keys, NEW keys2, PressRule(q, used, keys),
         \A p \in DOMAIN keys2 : p \in DOMAIN keys \/ (IsDown(q[1]) /\ p = q[1].press)
  PROVE  PressRule(Tail(q), used, keys2)
<1> DEFINE a == Tail(q)
<1>1. \A n \in 1..Len(a) : n + 1 \in 1..Len(q) /\ a[n] = q[n + 1] BY Takes
<1>2. 1 \in 1..Len(q) OBVIOUS
<1> HIDE DEF a
<1>3. DOMAIN keys2 \subseteq used BY <1>2 DEF PressRule
<1>4. ASSUME NEW n \in 1..Len(a), IsDown(a[n]) PROVE a[n].press \in used /\ a[n].press \notin DOMAIN keys2
  <2>1. n + 1 \in 1..Len(q) /\ IsDown(q[n + 1]) /\ a[n].press = q[n + 1].press /\ n + 1 # 1 BY <1>1, <1>4
  <2>2. q[n + 1].press \in used /\ q[n + 1].press \notin DOMAIN keys BY <2>1 DEF PressRule
  <2>3. IsDown(q[1]) => q[1].press # q[n + 1].press BY <1>2, <2>1 DEF PressRule
  <2> QED BY <2>1, <2>2, <2>3
<1>5. ASSUME NEW m \in 1..Len(a), NEW n \in 1..Len(a), IsDown(a[m]), IsDown(a[n]), a[m].press = a[n].press
      PROVE  m = n
  <2>1. m + 1 \in 1..Len(q) /\ n + 1 \in 1..Len(q) /\ a[m] = q[m + 1] /\ a[n] = q[n + 1] BY <1>1
  <2>2. m + 1 = n + 1 BY <1>5, <2>1 DEF PressRule
  <2> QED BY <2>2
<1> QED BY <1>3, <1>4, <1>5 DEF PressRule, a

\* The admitted controller sends: the queue holds no cleanup, and its keys are the holder's.
LEMMA QueueSent ==
  ASSUME NEW q \in Seq(Works), NEW e \in Works, NEW h, NEW cn, NEW c \in Controllers,
         QueueRule(q, h, cn), cn[c] = "admitted", e.kind # "cleanup",
         e.kind = "key" => OwnerOf(e.press) = c
  PROVE  QueueRule(Append(q, e), h, cn)
<1> DEFINE a == Append(q, e)
<1>1. \A n \in 1..Len(a) : (n \in 1..Len(q) /\ a[n] = q[n]) \/ (n = Len(q) + 1 /\ a[n] = e) BY Appends
<1> HIDE DEF a
<1>2. h = c /\ h # NoOne BY InputAssumption DEF QueueRule
<1>3. \A n \in 1..Len(a) : a[n].kind = "key" => OwnerOf(a[n].press) = h BY <1>1, <1>2 DEF QueueRule
<1>4. \A n \in 1..Len(a) : a[n].kind # "cleanup" BY <1>1 DEF QueueRule
<1> QED BY <1>2, <1>3, <1>4 DEF QueueRule, a

\* The admitted controller leaves: the cleanup is the last of the queue.
LEMMA QueueLeft ==
  ASSUME NEW q \in Seq(Works), NEW h, NEW cn, NEW cn2, NEW c \in Controllers,
         QueueRule(q, h, cn), cn[c] = "admitted", \A d \in Controllers : cn2[d] # "admitted"
  PROVE  QueueRule(Append(q, Cleanup), h, cn2)
<1> DEFINE a == Append(q, Cleanup)
<1>0. Cleanup \in Works /\ Cleanup.kind = "cleanup" BY DEF Cleanup, Works, Others
<1>1. Len(a) = Len(q) + 1 /\ \A n \in 1..Len(a) : (n \in 1..Len(q) /\ a[n] = q[n]) \/ (n = Len(q) + 1 /\ a[n] = Cleanup)
  BY <1>0, Appends
<1> HIDE DEF a
<1>2. h = c /\ h # NoOne BY InputAssumption DEF QueueRule
<1>3. \A n \in 1..Len(a) : a[n].kind = "key" => OwnerOf(a[n].press) = h BY <1>0, <1>1 DEF QueueRule
<1>4. \A n \in 1..Len(a) : a[n].kind = "cleanup" => n = Len(a) BY <1>1 DEF QueueRule
<1> QED BY <1>2, <1>3, <1>4 DEF QueueRule, a

\* The executor takes an event, which is not a cleanup.
LEMMA QueueTaken ==
  ASSUME NEW q \in Seq(Works), q # <<>>, NEW h, NEW cn, QueueRule(q, h, cn)
  PROVE  QueueRule(Tail(q), h, cn)
<1> DEFINE a == Tail(q)
<1>1. Len(a) = Len(q) - 1 /\ Len(q) \in Nat /\ \A n \in 1..Len(a) : n + 1 \in 1..Len(q) /\ a[n] = q[n + 1] BY Takes
<1> HIDE DEF a
<1>2. h # NoOne BY DEF QueueRule
<1>3. \A n \in 1..Len(a) : a[n].kind = "key" => OwnerOf(a[n].press) = h BY <1>1 DEF QueueRule
<1>4. ASSUME NEW n \in 1..Len(a), a[n].kind = "cleanup"
      PROVE  n = Len(a) /\ \A c \in Controllers : cn[c] # "admitted"
  BY <1>1, <1>4 DEF QueueRule
<1> QED BY <1>2, <1>3, <1>4 DEF QueueRule, a

-----------------------------------------------------------------------------
(* Steps that leave the held keys alone.                                   *)

\* What is known of keys and buttons does not depend on anything else.
LEMMA KnownStays ==
  ASSUME held'.keys = held.keys, held'.buttons = held.buttons, app' = app, world'.pid = world.pid,
         DownIsHeld, HeldPointIsThePointer
  PROVE  DownIsHeld' /\ HeldPointIsThePointer'
BY DEF DownIsHeld, HeldPointIsThePointer

\* A step that neither admits a controller nor touches the queue and the held keys.
LEMMA QuietStep ==
  ASSUME InputInv, InputType', target' = target, held'.keys = held.keys, exec'.kept = exec.kept,
         \A d \in Controllers : conn'[d] = "admitted" => conn[d] = "admitted",
         exec'.poll \in {"end_drive", "complete"} => exec.poll \in {"end_drive", "complete"},
         DownIsHeld', HeldPointIsThePointer'
  PROVE  InputInv'
<1>1. PressRule(target.queue, target.used, held.keys)' BY DEF InputInv
<1>2. QueueRule(target.queue, target.holder, conn)' BY DEF InputInv, QueueRule
<1>3. HolderRule(target.queue, target.holder, exec.poll, exec.kept, held.keys)' BY DEF InputInv, HolderRule
<1> QED BY <1>1, <1>2, <1>3 DEF InputInv

\* Connections that come and are accepted, and the threads' own states (accept_loop, Drop).
LEMMA ConnectKeeps ==
  ASSUME InputInv, NEW c \in Controllers, Connect(c) \/ Accept(c)
  PROVE  InputInv'
<1> USE DEF InputInv
<1>1. conn \in Conns /\ exec \in Executors /\ conn[c] # "admitted" BY DEF InputType, Connect, Accept
<1>2. conn' \in Conns /\ \A d \in Controllers : conn'[d] = "admitted" => conn[d] = "admitted"
  BY <1>1 DEF Connect, Accept, Conns
<1>3. exec' \in Executors /\ exec'.kept = exec.kept /\ exec'.poll = exec.poll
  <2>1. CASE Connect(c) BY <2>1, <1>1 DEF Connect
  <2>2. CASE Accept(c) BY <2>2, <1>1 DEF Accept, Executors
  <2> QED BY <2>1, <2>2
<1>4. UNCHANGED <<target, held, app, world>> BY DEF Connect, Accept
<1> QED BY <1>2, <1>3, <1>4, QuietStep, KnownStays DEF InputType

LEMMA ThreadsKeep ==
  ASSUME InputInv, Stop \/ PollEnds \/ DropReturns
  PROVE  InputInv'
<1> USE DEF InputInv
<1>1. exec \in Executors BY DEF InputType
<1>2. exec' \in Executors /\ exec'.kept = exec.kept /\ exec'.poll \in {exec.poll, "over"}
  BY <1>1 DEF Stop, PollEnds, DropReturns, Executors
<1>4. UNCHANGED <<conn, target, held, app, world>> BY DEF Stop, PollEnds, DropReturns
<1> QED BY <1>2, <1>4, QuietStep, KnownStays DEF InputType

\* A surface marked as driven, or no longer (begin_drive, end_drive), holds what it held.
LEMMA DriveKeeps ==
  ASSUME InputInv, BeginDrive \/ EndDrive
  PROVE  InputInv'
<1> USE DEF InputInv
<1> DEFINE flags == BOOLEAN
<1>1. exec \in Executors /\ held \in [keys: Bindings, buttons: {{}} \union {{x} : x \in Points}, driven: flags]
  BY DEF InputType, Helds
<1>2. exec' \in Executors /\ exec'.kept = exec.kept
      /\ (exec'.poll \in {"end_drive", "complete"} => exec.poll \in {"end_drive", "complete"})
  BY <1>1 DEF BeginDrive, EndDrive, Executors
<1>3. PICK b \in flags : held' = [held EXCEPT !.driven = b]
  <2> DEFINE yes == TRUE
             no == FALSE
  <2>1. yes \in flags /\ no \in flags OBVIOUS
  <2>2. \/ held' = [held EXCEPT !.driven = yes] \/ held' = [held EXCEPT !.driven = no] \/ held' = held
    BY DEF BeginDrive, EndDrive
  <2> HIDE DEF yes, no, flags
  <2>3. held.driven \in flags /\ held = [held EXCEPT !.driven = held.driven] BY <1>1
  <2> QED BY <2>1, <2>2, <2>3
<1> HIDE DEF flags
<1>4. held' \in [keys: Bindings, buttons: {{}} \union {{x} : x \in Points}, driven: flags]
      /\ held'.keys = held.keys /\ held'.buttons = held.buttons
  BY <1>1, <1>3
<1>5. held' \in Helds BY <1>4 DEF Helds, flags
<1>6. UNCHANGED <<conn, target, app, world>> BY DEF BeginDrive, EndDrive
<1> QED BY <1>2, <1>4, <1>5, <1>6, QuietStep, KnownStays DEF InputType

-----------------------------------------------------------------------------
(* The controllers.                                                        *)

\* The hello of a served connection admits it when there is no holder (Target, external).
LEMMA HelloKeeps ==
  ASSUME InputInv, NEW c \in Controllers, Hello(c)
  PROVE  InputInv'
<1> USE DEF InputInv
<1>1. conn \in Conns /\ target \in Targets /\ held \in Helds BY DEF InputType
<1>2. CASE target.holder = NoOne
  <2>1. conn' = [conn EXCEPT ![c] = "admitted"] /\ target' = [target EXCEPT !.holder = c]
        /\ UNCHANGED <<exec, held, app, world>>
    BY <1>2 DEF Hello
  <2>2. conn' \in Conns /\ target' \in Targets BY <1>1, <2>1 DEF Conns, Targets
  <2>3. target'.queue = target.queue /\ target'.used = target.used /\ target'.holder = c /\ target.queue = <<>>
    BY <1>1, <1>2, <2>1 DEF Targets, QueueRule
  <2>4. \A d \in Controllers : conn'[d] = "admitted" => d = c
    BY <1>1, <1>2, <2>1, InputAssumption DEF Conns, QueueRule
  <2>5. QueueRule(target.queue, target.holder, conn)'
    BY <2>3, <2>4, InputAssumption DEF QueueRule
  <2>6. DOMAIN held.keys \subseteq Presses BY <1>1, BindingsAre DEF Helds
  <2>7. DOMAIN held.keys \subseteq exec.kept BY <1>2, <2>6, InputAssumption DEF HolderRule
  <2>8. HolderRule(target.queue, target.holder, exec.poll, exec.kept, held.keys)'
    BY <2>1, <2>3, <2>7 DEF HolderRule
  <2>9. PressRule(target.queue, target.used, held.keys)' BY <2>1, <2>3
  <2> QED BY <2>1, <2>2, <2>5, <2>8, <2>9, KnownStays DEF InputType
<1>3. CASE target.holder # NoOne
  <2>1. conn' = [conn EXCEPT ![c] = "gone"] /\ UNCHANGED <<target, exec, held, app, world>>
    BY <1>3 DEF Hello
  <2>2. conn' \in Conns /\ \A d \in Controllers : conn'[d] = "admitted" => conn[d] = "admitted"
    BY <1>1, <2>1 DEF Conns
  <2> QED BY <2>1, <2>2, QuietStep, KnownStays DEF InputType
<1> QED BY <1>2, <1>3

\* Every event a controller may send is an event, its keys are presses of its own, and one
\* that goes down has not gone down before.
LEMMA EventsAre ==
  ASSUME InputInv, NEW c \in Controllers, NEW e \in KeyEvents(c) \union ButtonEvents \union OtherEvents
  PROVE  /\ e \in Works /\ e.kind # "cleanup"
         /\ e.kind = "key" => e.press \in Presses /\ OwnerOf(e.press) = c
         /\ IsDown(e) => e.press \notin target.used
<1>0. target.used \subseteq Presses BY DEF InputInv, InputType, Targets
<1>1. CASE e \in KeyEvents(c)
  <2>1. CASE \E p \in {q \in Presses \ target.used : OwnerOf(q) = c}, k \in Codes :
               e = [kind |-> "key", press |-> p, action |-> "down", key |-> k]
    BY <2>1 DEF Works, KeyStrokes, IsDown
  <2>2. CASE \E p \in {q \in target.used : OwnerOf(q) = c}, a \in {"repeat", "up"}, k \in Codes :
               e = [kind |-> "key", press |-> p, action |-> a, key |-> k]
    BY <1>0, <2>2 DEF Works, KeyStrokes, IsDown
  <2> QED BY <1>1, <2>1, <2>2 DEF KeyEvents
<1>2. CASE e \in ButtonEvents
  BY <1>2 DEF ButtonEvents, Works, Clicks, Spots, IsDown
<1>3. CASE e \in OtherEvents
  BY <1>3 DEF OtherEvents, Works, Moves, Others, Spots, IsDown
<1> QED BY <1>1, <1>2, <1>3

\* An event of the admitted controller joins the queue.
LEMMA SendKeeps ==
  ASSUME InputInv, NEW c \in Controllers,
         NEW e \in KeyEvents(c) \union ButtonEvents \union OtherEvents, Send(c, e)
  PROVE  InputInv'
<1> USE DEF InputInv
<1>1. /\ e \in Works /\ e.kind # "cleanup" /\ (e.kind = "key" => e.press \in Presses /\ OwnerOf(e.press) = c)
      /\ (IsDown(e) => e.press \notin target.used)
  BY EventsAre
<1>2. target \in Targets /\ target.queue \in Seq(Works) /\ conn[c] = "admitted" BY DEF InputType, Targets, Send
<1>3. PICK u \in SUBSET Presses :
        /\ target' = [target EXCEPT !.queue = Append(@, e), !.sent = @ + 1, !.used = u]
        /\ target.used \subseteq u /\ (e.kind = "key" => e.press \in u)
  <2>1. target.used \subseteq Presses BY <1>2 DEF Targets
  <2>2. CASE e.kind = "key" BY <2>1, <2>2, <1>1 DEF Send
  <2>3. CASE e.kind # "key" BY <2>1, <2>3, <1>1 DEF Send
  <2> QED BY <2>2, <2>3
<1>4. Append(target.queue, e) \in Seq(Works) BY <1>1, <1>2, Appends
<1>5. target.sent + 1 \in 0..MaxSent BY <1>2, InputAssumption DEF Targets, Send
<1>6. target' \in Targets /\ target'.queue = Append(target.queue, e) /\ target'.used = u /\ target'.holder = target.holder
  BY <1>2, <1>3, <1>4, <1>5 DEF Targets
<1>7. UNCHANGED <<conn, exec, held, app, world>> BY DEF Send
<1>8. PressRule(target.queue, target.used, held.keys)'
  BY <1>1, <1>2, <1>3, <1>6, <1>7, PressSent DEF IsDown
<1>9. QueueRule(target.queue, target.holder, conn)'
  <2>1. QueueRule(Append(target.queue, e), target.holder, conn) BY <1>1, <1>2, QueueSent
  <2> QED BY <2>1, <1>6, <1>7
<1>10. HolderRule(target.queue, target.holder, exec.poll, exec.kept, held.keys)'
  <2>1. target'.queue # <<>> /\ (target.queue # <<>> => target'.queue[1] = target.queue[1])
    BY <1>1, <1>2, <1>6, Appends
  <2> QED BY <2>1, <1>6, <1>7 DEF HolderRule
<1> QED BY <1>6, <1>7, <1>8, <1>9, <1>10, KnownStays DEF InputType

\* A connection ends; if it was the admitted one, its cleanup is the last of the queue.
LEMMA CleanupQueued ==
  ASSUME InputInv, NEW c \in Controllers, conn[c] = "admitted", conn' \in Conns, exec' \in Executors,
         \A d \in Controllers : conn'[d] # "admitted",
         target' = [target EXCEPT !.queue = Append(@, Cleanup)],
         exec'.poll = exec.poll, exec'.kept = exec.kept, UNCHANGED <<held, app, world>>
  PROVE  InputInv'
<1> USE DEF InputInv
<1>1. target \in Targets /\ target.queue \in Seq(Works) BY DEF InputType, Targets
<1>2. Cleanup \in Works BY DEF Cleanup, Works, Others
<1>3. Append(target.queue, Cleanup) \in Seq(Works) BY <1>1, <1>2, Appends
<1>4. target' \in Targets /\ target'.queue = Append(target.queue, Cleanup)
      /\ target'.used = target.used /\ target'.holder = target.holder
  BY <1>1, <1>3 DEF Targets
<1>5. PressRule(target.queue, target.used, held.keys)' BY <1>1, <1>4, PressStays
<1>6. QueueRule(target.queue, target.holder, conn)' BY <1>1, <1>4, QueueLeft
<1>7. HolderRule(target.queue, target.holder, exec.poll, exec.kept, held.keys)'
  BY <1>1, <1>2, <1>4, Appends DEF HolderRule
<1> QED BY <1>4, <1>5, <1>6, <1>7, KnownStays DEF InputType

LEMMA LeaveKeeps ==
  ASSUME InputInv, NEW c \in Controllers, Leave(c)
  PROVE  InputInv'
<1> USE DEF InputInv
<1>1. conn \in Conns /\ exec \in Executors BY DEF InputType
<1>2. conn' = [conn EXCEPT ![c] = "gone"] /\ UNCHANGED <<exec, held, app, world>> BY DEF Leave
<1>3. conn' \in Conns /\ \A d \in Controllers : conn'[d] = "admitted" => d # c /\ conn[d] = "admitted"
  BY <1>1, <1>2 DEF Conns
<1>4. CASE conn[c] = "admitted"
  <2>1. target' = [target EXCEPT !.queue = Append(@, Cleanup)] BY <1>4 DEF Leave
  <2>2. \A d \in Controllers : conn'[d] # "admitted" BY <1>3, <1>4 DEF QueueRule
  <2> QED BY <1>1, <1>2, <1>3, <1>4, <2>1, <2>2, CleanupQueued
<1>5. CASE conn[c] # "admitted"
  <2>1. target' = target BY <1>5 DEF Leave
  <2> QED BY <1>2, <1>3, <2>1, QuietStep, KnownStays DEF InputType
<1> QED BY <1>4, <1>5

\* The accept thread drops its servers and with them every connection (Drop).
LEMMA AcceptEndsKeeps ==
  ASSUME InputInv, AcceptEnds
  PROVE  InputInv'
<1> USE DEF InputInv
<1>1. conn \in Conns /\ exec \in Executors BY DEF InputType
<1>2. UNCHANGED <<held, app, world>> BY DEF AcceptEnds
<1>3. conn' \in Conns /\ \A d \in Controllers : conn'[d] # "admitted" BY <1>1 DEF AcceptEnds, Conns
<1>4. exec' \in Executors /\ exec'.kept = exec.kept /\ exec'.poll = exec.poll
  BY <1>1 DEF AcceptEnds, Executors
<1>5. CASE \E c \in Controllers : conn[c] = "admitted"
  <2>1. target' = [target EXCEPT !.queue = Append(@, Cleanup)] BY <1>5 DEF AcceptEnds
  <2> QED BY <1>2, <1>3, <1>4, <1>5, <2>1, CleanupQueued
<1>6. CASE ~\E c \in Controllers : conn[c] = "admitted"
  <2>1. target' = target BY <1>6 DEF AcceptEnds
  <2> QED BY <1>2, <1>3, <1>4, <2>1, QuietStep, KnownStays DEF InputType
<1> QED BY <1>5, <1>6

-----------------------------------------------------------------------------
(* The cleanup barrier of poll_loop.                                       *)

\* complete: the target admits again, with an empty queue and nothing bound but what the
\* release could not post.
LEMMA CompleteKeeps ==
  ASSUME InputInv, CompleteCleanup
  PROVE  InputInv'
<1> USE DEF InputInv
<1>1. conn \in Conns /\ exec \in Executors /\ target \in Targets /\ target.queue \in Seq(Works) BY DEF InputType, Targets
<1>2. UNCHANGED <<conn, held, app, world>> BY DEF CompleteCleanup
<1>3. target.queue # <<>> /\ target.queue[1].kind = "cleanup" /\ DOMAIN held.keys \subseteq exec.kept
  <2>1. exec.poll \in {"end_drive", "complete"} BY DEF CompleteCleanup
  <2> QED BY <2>1 DEF HolderRule
<1>4. 1 \in 1..Len(target.queue) BY <1>1, <1>3
<1>5. 1 = Len(target.queue) /\ \A c \in Controllers : conn[c] # "admitted" BY <1>3, <1>4 DEF QueueRule
<1>6. Tail(target.queue) = <<>> BY <1>1, <1>5, LastTaken
<1>7. target' = [target EXCEPT !.queue = <<>>, !.holder = NoOne] BY <1>6 DEF CompleteCleanup
<1>8. target' \in Targets /\ target'.queue = <<>> /\ target'.holder = NoOne /\ target'.used = target.used
  <2> DEFINE empty == <<>>
  <2>1. empty \in Seq(Works) /\ target' = [target EXCEPT !.queue = empty, !.holder = NoOne] BY <1>7
  <2> HIDE DEF empty
  <2>2. target' \in Targets /\ target'.queue = empty /\ target'.holder = NoOne /\ target'.used = target.used
    BY <1>1, <2>1 DEF Targets
  <2> QED BY <2>2 DEF empty
<1>9. exec' \in Executors /\ exec'.poll = "idle" /\ exec'.kept = exec.kept BY <1>1 DEF CompleteCleanup, Executors
<1>10. PressRule(target.queue, target.used, held.keys)' BY <1>2, <1>8 DEF PressRule
<1>11. QueueRule(target.queue, target.holder, conn)' BY <1>2, <1>5, <1>8 DEF QueueRule
<1>12. HolderRule(target.queue, target.holder, exec.poll, exec.kept, held.keys)' BY <1>2, <1>3, <1>8, <1>9 DEF HolderRule
<1> QED BY <1>2, <1>8, <1>9, <1>10, <1>11, <1>12, KnownStays DEF InputType

-----------------------------------------------------------------------------
(* The world and the other callers.                                        *)

\* A fault is counted, and only what the code changes is changed.
LEMMA FaultCounts ==
  ASSUME world \in Worlds, NEW failed \in BOOLEAN, failed => FaultsLeft, world' = Fault(failed)
  PROVE  world' \in Worlds /\ world'.pid = world.pid /\ world'.alive = world.alive /\ world'.ax = world.ax
<1> DEFINE flags == BOOLEAN
<1>1. CASE failed
  <2>1. world' = [world EXCEPT !.faults = @ + 1] /\ world.faults < MaxFaults BY <1>1 DEF Fault, FaultsLeft
  <2>2. world \in [alive: flags, pid: flags, ax: flags, faults: 0..MaxFaults] BY DEF Worlds
  <2>3. world.faults + 1 \in 0..MaxFaults BY <2>1, <2>2, InputAssumption
  <2> HIDE DEF flags
  <2>4. world' \in [alive: flags, pid: flags, ax: flags, faults: 0..MaxFaults]
        /\ world'.pid = world.pid /\ world'.alive = world.alive /\ world'.ax = world.ax
    BY <2>1, <2>2, <2>3
  <2> QED BY <2>4 DEF Worlds, flags
<1>2. CASE ~failed BY <1>2 DEF Fault
<1> QED BY <1>1, <1>2

\* The handle dies, the grant comes and goes: what is held stays held.
LEMMA WorldKeeps ==
  ASSUME InputInv, SurfaceDies \/ RevokeAccessibility \/ GrantAccessibility
  PROVE  InputInv'
<1> USE DEF InputInv
<1> DEFINE flags == BOOLEAN
           yes == TRUE
           no == FALSE
<1>1. world \in [alive: flags, pid: flags, ax: flags, faults: 0..MaxFaults] /\ yes \in flags /\ no \in flags
  BY DEF InputType, Worlds
<1>2. \/ world' = [world EXCEPT !.alive = no, !.faults = @ + 1] /\ world.faults < MaxFaults
      \/ world' = [world EXCEPT !.ax = no, !.faults = @ + 1] /\ world.faults < MaxFaults
      \/ world' = [world EXCEPT !.ax = yes]
  BY DEF SurfaceDies, RevokeAccessibility, GrantAccessibility, FaultsLeft
<1>3. world.faults < MaxFaults => world.faults + 1 \in 0..MaxFaults BY <1>1, InputAssumption
<1> HIDE DEF flags, yes, no
<1>4. world' \in [alive: flags, pid: flags, ax: flags, faults: 0..MaxFaults] /\ world'.pid = world.pid
  BY <1>1, <1>2, <1>3
<1>5. world' \in Worlds BY <1>4 DEF Worlds, flags
<1>6. UNCHANGED <<conn, target, exec, held, app>> BY DEF SurfaceDies, RevokeAccessibility, GrantAccessibility
<1> QED BY <1>4, <1>5, <1>6, QuietStep, KnownStays DEF InputType

\* The application dies with its keys.
LEMMA ProcessDiesKeeps ==
  ASSUME InputInv, ProcessDies
  PROVE  InputInv'
<1> USE DEF InputInv
<1> DEFINE flags == BOOLEAN
           no == FALSE
           none == {}
<1>1. /\ world \in [alive: flags, pid: flags, ax: flags, faults: 0..MaxFaults] /\ no \in flags
      /\ app \in [keys: SUBSET Codes, button: flags, pointer: Points,
                  loose: SUBSET (Codes \union {"button"}), strayed: flags]
      /\ none \in SUBSET Codes /\ none \in SUBSET (Codes \union {"button"})
  BY DEF InputType, Worlds, Downs
<1>2. /\ world' = [world EXCEPT !.pid = no, !.faults = @ + 1] /\ world.faults < MaxFaults
      /\ app' = [app EXCEPT !.keys = none, !.button = no, !.loose = none]
  BY DEF ProcessDies, FaultsLeft
<1>3. world.faults + 1 \in 0..MaxFaults BY <1>1, <1>2, InputAssumption
<1> HIDE DEF flags, no, none
<1>4. world' \in [alive: flags, pid: flags, ax: flags, faults: 0..MaxFaults] /\ world'.pid = no
  BY <1>1, <1>2, <1>3
<1>5. /\ app' \in [keys: SUBSET Codes, button: flags, pointer: Points,
                  loose: SUBSET (Codes \union {"button"}), strayed: flags]
      /\ app'.pointer = app.pointer /\ app'.strayed = app.strayed
  BY <1>1, <1>2
<1>6. world' \in Worlds /\ ~world'.pid /\ app' \in Downs BY <1>4, <1>5 DEF Worlds, Downs, flags, no
<1>7. UNCHANGED <<conn, target, exec, held>> BY DEF ProcessDies
<1>8. DownIsHeld' BY <1>6 DEF DownIsHeld
<1>9. HeldPointIsThePointer' BY <1>5, <1>7 DEF HeldPointIsThePointer
<1> QED BY <1>6, <1>7, <1>8, <1>9, QuietStep DEF InputType

\* The keys of a caller's own key: they go down and up, or the down stays, loose.
LEMMA RouteKeyKeeps ==
  ASSUME InputInv, NEW k \in Codes, NEW f \in BOOLEAN, RouteKey(k, f)
  PROVE  InputInv'
<1> USE DEF InputInv
<1> DEFINE flags == BOOLEAN
<1>1. /\ app \in [keys: SUBSET Codes, button: flags, pointer: Points,
                  loose: SUBSET (Codes \union {"button"}), strayed: flags]
      /\ world' \in Worlds /\ world'.pid = world.pid
  BY FaultCounts DEF InputType, Downs, RouteKey
<1>2. \/ app' = [app EXCEPT !.keys = @ \union {k}, !.loose = @ \union {k}]
      \/ app' = [app EXCEPT !.keys = @ \ {k}]
  BY DEF RouteKey
<1> DEFINE somekeys == SUBSET Codes
           someloose == SUBSET (Codes \union {"button"})
           more == app.keys \union {k}
           fewer == app.keys \ {k}
           looser == app.loose \union {k}
<1>a. /\ app \in [keys: somekeys, button: flags, pointer: Points, loose: someloose, strayed: flags]
      /\ app' = [app EXCEPT !.keys = more, !.loose = looser] \/ app' = [app EXCEPT !.keys = fewer]
  BY <1>1, <1>2
<1>b. more \in somekeys /\ fewer \in somekeys /\ looser \in someloose
  <2>1. app.keys \in SUBSET Codes /\ app.loose \in SUBSET (Codes \union {"button"}) BY <1>1
  <2> QED BY <2>1
<1> HIDE DEF flags, somekeys, someloose, more, fewer, looser
<1>3. app' \in [keys: somekeys, button: flags, pointer: Points, loose: someloose, strayed: flags]
  BY <1>a, <1>b
<1>4. /\ app'.button = app.button /\ app'.pointer = app.pointer /\ app'.strayed = app.strayed
      /\ app.loose \subseteq app'.loose /\ app'.keys \subseteq app.keys \union app'.loose
  BY <1>1, <1>2
<1>5. app' \in Downs BY <1>3 DEF Downs, flags, somekeys, someloose
<1>6. UNCHANGED <<conn, target, exec, held>> BY DEF RouteKey
<1>7. DownIsHeld' BY <1>1, <1>4, <1>6 DEF DownIsHeld
<1>8. HeldPointIsThePointer' BY <1>4, <1>6 DEF HeldPointIsThePointer
<1> QED BY <1>1, <1>5, <1>6, <1>7, <1>8, QuietStep DEF InputType

\* A caller's own click: the button goes down and up, or stays down, loose; the pointer strays.
LEMMA RouteClickKeeps ==
  ASSUME InputInv, NEW x \in Points, NEW f \in BOOLEAN, RouteClick(x, f)
  PROVE  InputInv'
<1> USE DEF InputInv
<1> DEFINE flags == BOOLEAN
           yes == TRUE
           no == FALSE
<1>1. /\ app \in [keys: SUBSET Codes, button: flags, pointer: Points,
                  loose: SUBSET (Codes \union {"button"}), strayed: flags]
      /\ world' \in Worlds /\ world'.pid = world.pid /\ yes \in flags /\ no \in flags
  BY FaultCounts DEF InputType, Downs, RouteClick
<1>2. \/ app' = [app EXCEPT !.button = yes, !.loose = @ \union {"button"}, !.pointer = x, !.strayed = yes]
      \/ app' = [app EXCEPT !.button = no, !.pointer = x, !.strayed = yes]
  BY DEF RouteClick
<1> DEFINE somekeys == SUBSET Codes
           someloose == SUBSET (Codes \union {"button"})
           looser == app.loose \union {"button"}
<1>a. /\ app \in [keys: somekeys, button: flags, pointer: Points, loose: someloose, strayed: flags]
      /\ \/ app' = [app EXCEPT !.button = yes, !.loose = looser, !.pointer = x, !.strayed = yes]
         \/ app' = [app EXCEPT !.button = no, !.pointer = x, !.strayed = yes]
  BY <1>1, <1>2
<1>b. looser \in someloose /\ "button" \in looser /\ app.loose \subseteq looser
  <2>1. app.loose \in SUBSET (Codes \union {"button"}) BY <1>1
  <2> QED BY <2>1
<1> HIDE DEF flags, yes, no, somekeys, someloose, looser
<1>3. app' \in [keys: somekeys, button: flags, pointer: Points, loose: someloose, strayed: flags]
  BY <1>1, <1>a, <1>b
<1>4. /\ app'.keys = app.keys /\ app'.strayed = yes /\ app.loose \subseteq app'.loose
      /\ app'.button = no \/ "button" \in app'.loose
  BY <1>a, <1>b
<1>5. app' \in Downs /\ app'.strayed /\ (app'.button => "button" \in app'.loose) BY <1>3, <1>4 DEF Downs, flags, yes, no, somekeys, someloose
<1>6. UNCHANGED <<conn, target, exec, held>> BY DEF RouteClick
<1>7. DownIsHeld' BY <1>1, <1>4, <1>5, <1>6 DEF DownIsHeld
<1>8. HeldPointIsThePointer' BY <1>5 DEF HeldPointIsThePointer
<1> QED BY <1>1, <1>5, <1>6, <1>7, <1>8, QuietStep DEF InputType

-----------------------------------------------------------------------------
(* The adapter's calls.                                                    *)


Loose == SUBSET (Codes \union {"button"})

\* The application and the held state after a call with the event e: consistent, and only
\* the press of a down is bound that was not before.
Served(e) ==
  /\ held' \in Helds /\ app' \in Downs
  /\ DownIsHeld' /\ HeldPointIsThePointer'
  /\ \A p \in DOMAIN held'.keys : p \in DOMAIN held.keys \/ (IsDown(e) /\ p = e.press)

\* The call changes which keys are bound, and nothing else of the held state.
LEMMA HeldKeys ==
  ASSUME held \in Helds, NEW K \in Bindings, held' = [held EXCEPT !.keys = K]
  PROVE  held' \in Helds /\ held'.keys = K /\ held'.buttons = held.buttons
<1> DEFINE flags == BOOLEAN
           someb == {{}} \union {{x} : x \in Points}
<1>1. held \in [keys: Bindings, buttons: someb, driven: flags] BY DEF Helds
<1> HIDE DEF flags, someb
<1>2. held' \in [keys: Bindings, buttons: someb, driven: flags] /\ held'.keys = K /\ held'.buttons = held.buttons
  BY <1>1
<1> QED BY <1>2 DEF Helds, flags, someb

\* The call changes the held button, and nothing else of the held state.
LEMMA HeldButtons ==
  ASSUME held \in Helds, NEW B \in {{}} \union {{x} : x \in Points}, held' = [held EXCEPT !.buttons = B]
  PROVE  held' \in Helds /\ held'.keys = held.keys /\ held'.buttons = B
<1> DEFINE flags == BOOLEAN
           someb == {{}} \union {{x} : x \in Points}
<1>1. held \in [keys: Bindings, buttons: someb, driven: flags] /\ B \in someb BY DEF Helds
<1> HIDE DEF flags, someb
<1>2. held' \in [keys: Bindings, buttons: someb, driven: flags] /\ held'.keys = held.keys /\ held'.buttons = B
  BY <1>1
<1> QED BY <1>2 DEF Helds, flags, someb

\* A call posts keys: the button and the pointer stay.
LEMMA AppKeys ==
  ASSUME app \in Downs, NEW ks \in SUBSET Codes, NEW ls \in Loose,
         \/ app' = [app EXCEPT !.keys = ks, !.loose = ls]
         \/ app' = [app EXCEPT !.loose = ls] /\ ks = app.keys
         \/ app' = app /\ ks = app.keys /\ ls = app.loose
  PROVE  /\ app' \in Downs /\ app'.keys = ks /\ app'.loose = ls
         /\ app'.button = app.button /\ app'.pointer = app.pointer /\ app'.strayed = app.strayed
<1> DEFINE flags == BOOLEAN
           somekeys == SUBSET Codes
<1>1. app \in [keys: somekeys, button: flags, pointer: Points, loose: Loose, strayed: flags] /\ ks \in somekeys
  BY DEF Downs, Loose
<1> HIDE DEF flags, somekeys, Loose
<1>2. app' \in [keys: somekeys, button: flags, pointer: Points, loose: Loose, strayed: flags] BY <1>1
<1>3. /\ app'.keys = ks /\ app'.loose = ls
      /\ app'.button = app.button /\ app'.pointer = app.pointer /\ app'.strayed = app.strayed
  BY <1>1
<1> QED BY <1>2, <1>3 DEF Downs, flags, somekeys, Loose

\* key_stroke: a down is bound as it is posted, an up and a repeat go by the binding.
LEMMA KeyStrokeServes ==
  ASSUME InputInv, NEW e \in KeyStrokes, NEW failed \in BOOLEAN, KeyStroke(e, failed),
         IsDown(e) => e.press \notin DOMAIN held.keys, world'.pid = world.pid
  PROVE  Served(e)
<1> DEFINE f == held.keys
           b == Bound(e)
<1>0. held \in Helds /\ app \in Downs /\ f \in Bindings /\ app.keys \in SUBSET Codes /\ app.loose \in Loose
  BY DEF InputInv, InputType, Helds, Downs, Loose
<1>1. e.press \in Presses /\ e.key \in Codes /\ e.action \in {"down", "repeat", "up"} /\ e.kind = "key" BY DEF KeyStrokes
<1>2. b \in Codes /\ (e.press \in DOMAIN f /\ e.action # "down" => b = f[e.press] /\ b \in Range(f))
      /\ (e.press \notin DOMAIN f \/ e.action = "down" => b = e.key)
  BY <1>0, <1>1, BindingsAre DEF Bound, Range
<1> DEFINE K == IF e.action = "down" THEN Bind(f, e.press, e.key)
                ELSE IF e.action = "up" THEN Unbind(f, e.press) ELSE f
           ks == IF failed THEN app.keys ELSE IF e.action = "up" THEN app.keys \ {b} ELSE app.keys \union {b}
           ls == IF failed THEN IF e.action = "up" /\ b \in app.keys THEN app.loose \union {b} ELSE app.loose
                 ELSE IF e.action = "repeat" /\ e.press \notin DOMAIN f THEN app.loose \union {e.key} ELSE app.loose
<1>3. held' = [held EXCEPT !.keys = K] BY DEF KeyStroke
<1>4. \/ app' = [app EXCEPT !.keys = ks, !.loose = ls]
      \/ app' = [app EXCEPT !.loose = ls] /\ ks = app.keys
      \/ app' = app /\ ks = app.keys /\ ls = app.loose
  BY DEF KeyStroke
<1>5. K \in Bindings /\ \A p \in DOMAIN K : p \in DOMAIN f \/ (IsDown(e) /\ p = e.press)
  <2>1. CASE e.action = "down"
    <3>1. K = Bind(f, e.press, e.key) /\ IsDown(e) BY <1>1, <2>1 DEF IsDown
    <3>2. Bind(f, e.press, e.key) \in Bindings /\ DOMAIN Bind(f, e.press, e.key) = DOMAIN f \union {e.press}
      BY <1>0, <1>1, BindAdds
    <3> QED BY <3>1, <3>2
  <2>2. CASE e.action = "up"
    <3>1. K = Unbind(f, e.press) BY <2>2
    <3>2. Unbind(f, e.press) \in Bindings /\ DOMAIN Unbind(f, e.press) = DOMAIN f \ {e.press}
      BY <1>0, <1>1, UnbindRemoves
    <3> QED BY <3>1, <3>2
  <2>3. CASE e.action = "repeat" BY <1>0, <2>3
  <2> QED BY <1>1, <2>1, <2>2, <2>3
<1>6. ks \in SUBSET Codes /\ ls \in Loose /\ app.loose \subseteq ls BY <1>0, <1>1, <1>2 DEF Loose
<1>7. app.keys \subseteq Range(f) \union app.loose => ks \subseteq Range(K) \union ls
  <2> SUFFICES ASSUME app.keys \subseteq Range(f) \union app.loose, NEW c \in ks PROVE c \in Range(K) \union ls
    OBVIOUS
  <2>1. CASE e.action = "down"
    <3>1. e.press \notin DOMAIN f BY <1>1, <2>1 DEF IsDown
    <3>2. \A d \in Range(f) \union {e.key} : d \in Range(K) BY <1>0, <1>1, <2>1, <3>1, BindAdds
    <3>3. c \in app.keys \union {e.key} BY <2>1, <1>2
    <3> QED BY <3>2, <3>3, <1>6
  <2>2. CASE e.action = "up"
    <3>1. \A d \in Range(f) : d \in Range(K) \/ (e.press \in DOMAIN f /\ d = f[e.press])
      BY <1>0, <1>1, <2>2, UnbindRemoves
    <3>2. c \in app.keys /\ (c = b => b \in ls) BY <2>2
    <3> QED BY <3>1, <3>2, <1>2, <1>6, <2>2
  <2>3. CASE e.action = "repeat"
    <3>1. K = f BY <2>3
    <3>2. c \in app.keys \/ (c = b /\ ~failed) BY <2>3
    <3>3. ~failed /\ e.press \notin DOMAIN f => b \in ls BY <2>3, <1>2
    <3> QED BY <3>1, <3>2, <3>3, <1>2, <1>6, <2>3
  <2> QED BY <1>1, <2>1, <2>2, <2>3
<1> HIDE DEF K, ks, ls, f, b
<1>8. held' \in Helds /\ held'.keys = K /\ held'.buttons = held.buttons BY <1>0, <1>3, <1>5, HeldKeys
<1>9. /\ app' \in Downs /\ app'.keys = ks /\ app'.loose = ls
      /\ app'.button = app.button /\ app'.pointer = app.pointer /\ app'.strayed = app.strayed
  BY <1>0, <1>4, <1>6, AppKeys
<1>10. DownIsHeld'
  <2>1. DownIsHeld BY DEF InputInv
  <2> QED BY <2>1, <1>6, <1>7, <1>8, <1>9 DEF DownIsHeld, f
<1>11. HeldPointIsThePointer'
  <2>1. HeldPointIsThePointer BY DEF InputInv
  <2> QED BY <2>1, <1>8, <1>9 DEF HeldPointIsThePointer
<1> QED BY <1>5, <1>8, <1>9, <1>10, <1>11 DEF Served, f

\* A call posts a button or a motion: the keys stay, and the button is held or down as b says.
LEMMA AppButtons ==
  ASSUME app \in Downs, NEW x \in Points, NEW ls \in Loose, NEW b \in BOOLEAN, NEW s \in BOOLEAN,
         \/ app' = [app EXCEPT !.button = b, !.pointer = x, !.strayed = s] /\ ls = app.loose
         \/ app' = [app EXCEPT !.strayed = s, !.loose = ls] /\ x = app.pointer /\ b = app.button
         \/ app' = [app EXCEPT !.strayed = s] /\ x = app.pointer /\ b = app.button /\ ls = app.loose
         \/ app' = [app EXCEPT !.pointer = x] /\ b = app.button /\ s = app.strayed /\ ls = app.loose
         \/ app' = [app EXCEPT !.pointer = x, !.strayed = s] /\ b = app.button /\ ls = app.loose
  PROVE  /\ app' \in Downs /\ app'.keys = app.keys /\ app'.loose = ls
         /\ app'.button = b /\ app'.pointer = x /\ app'.strayed = s
<1> DEFINE flags == BOOLEAN
           somekeys == SUBSET Codes
<1>1. /\ app \in [keys: somekeys, button: flags, pointer: Points, loose: Loose, strayed: flags]
      /\ b \in flags /\ s \in flags
  BY DEF Downs, Loose
<1> HIDE DEF flags, somekeys, Loose
<1>2. app' \in [keys: somekeys, button: flags, pointer: Points, loose: Loose, strayed: flags] BY <1>1
<1>3. /\ app'.keys = app.keys /\ app'.loose = ls
      /\ app'.button = b /\ app'.pointer = x /\ app'.strayed = s
  BY <1>1
<1> QED BY <1>2, <1>3 DEF Downs, flags, somekeys, Loose

\* Only the application's button, pointer and loose ends and the held button change: then
\* what is known of the keys stays known.
LEMMA KeysStayKnown ==
  ASSUME InputInv, held' \in Helds, app' \in Downs, held'.keys = held.keys, app'.keys = app.keys,
         app.loose \subseteq app'.loose, world'.pid = world.pid, NEW e,
         world.pid /\ app'.button => held'.buttons # {} \/ "button" \in app'.loose,
         HeldPointIsThePointer'
  PROVE  Served(e)
<1>1. DownIsHeld BY DEF InputInv
<1>2. DownIsHeld' BY <1>1 DEF DownIsHeld
<1> QED BY <1>2 DEF Served

\* button: a down is recorded as it is posted.
LEMMA ButtonServes ==
  ASSUME InputInv, NEW e \in Clicks, NEW failed \in BOOLEAN, Button(e, failed), world'.pid = world.pid
  PROVE  Served(e)
<1>0. held \in Helds /\ app \in Downs /\ app.loose \in Loose /\ app.button \in BOOLEAN /\ app.pointer \in Points
  BY DEF InputInv, InputType, Downs, Loose
<1>1. e.at \in Points /\ e.action \in {"down", "up"} BY DEF Clicks, Spots, Button, WindowToScreen
<1> DEFINE B == IF e.action = "down" THEN {e.at} ELSE {}
           ls == IF e.action = "up" /\ app.button THEN app.loose \union {"button"} ELSE app.loose
           press == e.action = "down"
<1>2. B \in {{}} \union {{x} : x \in Points} /\ ls \in Loose /\ app.loose \subseteq ls /\ press \in BOOLEAN
  BY <1>0, <1>1 DEF Loose
<1>3. held' = [held EXCEPT !.buttons = B] BY DEF Button
<1>4. held' \in Helds /\ held'.keys = held.keys /\ held'.buttons = B
  <2> HIDE DEF B
  <2> QED BY <1>0, <1>2, <1>3, HeldButtons
<1>5. DownIsHeld /\ HeldPointIsThePointer BY DEF InputInv
<1>6. CASE failed
  <2> DEFINE yes == TRUE
  <2>1. app' = [app EXCEPT !.strayed = yes, !.loose = ls] /\ yes \in BOOLEAN BY <1>6 DEF Button
  <2>2. /\ app' \in Downs /\ app'.keys = app.keys /\ app'.loose = ls
        /\ app'.button = app.button /\ app'.pointer = app.pointer /\ app'.strayed = yes
    <3> HIDE DEF yes, ls
    <3> QED BY <1>0, <1>2, <2>1, AppButtons, ZenonT(40)
  <2>3. HeldPointIsThePointer' BY <2>2 DEF HeldPointIsThePointer
  <2>4. world.pid /\ app'.button => held'.buttons # {} \/ "button" \in app'.loose
    <3>1. CASE e.action = "down" BY <3>1, <1>4
    <3>2. CASE e.action = "up" BY <3>2, <2>2
    <3> QED BY <1>1, <3>1, <3>2
  <2> QED BY <1>2, <1>4, <2>2, <2>3, <2>4, KeysStayKnown
<1>7. CASE ~failed
  <2> DEFINE no == FALSE
             l0 == app.loose
  <2>1. app' = [app EXCEPT !.button = press, !.pointer = e.at, !.strayed = no] /\ no \in BOOLEAN /\ l0 \in Loose /\ l0 = app.loose
    BY <1>0, <1>7 DEF Button
  <2>2. /\ app' \in Downs /\ app'.keys = app.keys /\ app'.loose = l0
        /\ app'.button = press /\ app'.pointer = e.at /\ app'.strayed = no
    <3> HIDE DEF no, press, l0
    <3> QED BY <1>0, <1>1, <1>2, <2>1, AppButtons, ZenonT(40)
  <2>3. held'.buttons # {} => held'.buttons = {app'.pointer} BY <1>4, <2>2
  <2>4. HeldPointIsThePointer' BY <2>3 DEF HeldPointIsThePointer
  <2>5. app'.button => held'.buttons # {} BY <1>4, <2>2
  <2> QED BY <1>4, <2>2, <2>4, <2>5, KeysStayKnown
<1> QED BY <1>6, <1>7

\* pointer_move: the point of a held button follows the pointer.
LEMMA MotionServes ==
  ASSUME InputInv, NEW e, e.at \in Spots, NEW failed \in BOOLEAN, PointerMove(e, failed), world'.pid = world.pid
  PROVE  Served(e)
<1>0. /\ held \in Helds /\ app \in Downs /\ app.loose \in Loose /\ app.button \in BOOLEAN
      /\ app.pointer \in Points /\ app.strayed \in BOOLEAN
  BY DEF InputInv, InputType, Downs, Loose
<1>1. e.at \in Points BY DEF Spots, PointerMove, WindowToScreen
<1> DEFINE B == IF held.buttons = {} THEN held.buttons ELSE {e.at}
           strays == held.buttons # {}
<1>2. B \in {{}} \union {{x} : x \in Points} /\ strays \in BOOLEAN BY <1>1
<1>3. held' = [held EXCEPT !.buttons = B] BY DEF PointerMove
<1>4. held' \in Helds /\ held'.keys = held.keys /\ held'.buttons = B
  <2> HIDE DEF B
  <2> QED BY <1>0, <1>2, <1>3, HeldButtons
<1>5. DownIsHeld /\ HeldPointIsThePointer BY DEF InputInv
<1>6. CASE failed
  <2>1. app' = [app EXCEPT !.strayed = strays] BY <1>6 DEF PointerMove
  <2>2. /\ app' \in Downs /\ app'.keys = app.keys /\ app'.loose = app.loose
        /\ app'.button = app.button /\ app'.strayed = strays
    <3> HIDE DEF strays
    <3> QED BY <1>0, <1>2, <2>1, AppButtons, ZenonT(40)
  <2>3. HeldPointIsThePointer' BY <1>4, <2>2 DEF HeldPointIsThePointer
  <2>4. world.pid /\ app'.button => held'.buttons # {} \/ "button" \in app'.loose
    BY <1>4, <1>5, <2>2 DEF DownIsHeld
  <2> QED BY <1>4, <2>2, <2>3, <2>4, KeysStayKnown
<1>7. CASE ~failed
  <2>1. app' = [app EXCEPT !.pointer = e.at] BY <1>7 DEF PointerMove
  <2>2. /\ app' \in Downs /\ app'.keys = app.keys /\ app'.loose = app.loose
        /\ app'.button = app.button /\ app'.pointer = e.at
    BY <1>0, <1>1, <2>1, AppButtons, ZenonT(40)
  <2>3. held'.buttons # {} => held'.buttons = {app'.pointer} BY <1>4, <2>2
  <2>4. HeldPointIsThePointer' BY <2>3 DEF HeldPointIsThePointer
  <2>5. world.pid /\ app'.button => held'.buttons # {} \/ "button" \in app'.loose
    BY <1>4, <1>5, <2>2 DEF DownIsHeld
  <2> QED BY <1>4, <2>2, <2>4, <2>5, KeysStayKnown
<1> QED BY <1>6, <1>7

\* scroll: the pointer strays from the point of a held button.
LEMMA ScrollServes ==
  ASSUME InputInv, NEW e, e.at \in Spots, Scroll(e), world'.pid = world.pid
  PROVE  Served(e)
<1>0. /\ held \in Helds /\ app \in Downs /\ app.loose \in Loose /\ app.button \in BOOLEAN
  BY DEF InputInv, InputType, Downs, Loose
<1>1. e.at \in Points /\ held' = held BY DEF Spots, Scroll, WindowToScreen
<1> DEFINE yes == TRUE
<1>2. app' = [app EXCEPT !.pointer = e.at, !.strayed = yes] /\ yes \in BOOLEAN BY DEF Scroll
<1>3. /\ app' \in Downs /\ app'.keys = app.keys /\ app'.loose = app.loose
      /\ app'.button = app.button /\ app'.strayed = yes
  <2> HIDE DEF yes
  <2> QED BY <1>0, <1>1, <1>2, AppButtons, ZenonT(40)
<1>4. DownIsHeld BY DEF InputInv
<1>5. HeldPointIsThePointer' BY <1>3 DEF HeldPointIsThePointer
<1>6. world.pid /\ app'.button => held'.buttons # {} \/ "button" \in app'.loose
  BY <1>1, <1>3, <1>4 DEF DownIsHeld
<1> QED BY <1>0, <1>1, <1>3, <1>5, <1>6, KeysStayKnown

\* What an event's call does, whichever it is (execute_event).
LEMMA AdapterServes ==
  ASSUME InputInv, NEW e \in Works, NEW failed \in BOOLEAN, Adapter(e, failed),
         IsDown(e) => e.press \notin DOMAIN held.keys, world'.pid = world.pid
  PROVE  Served(e)
<1>1. CASE e.kind = "key" /\ KeyStroke(e, failed)
  <2>1. e \in KeyStrokes BY <1>1 DEF Works, KeyStrokes, Clicks, Moves, Others
  <2> QED BY <1>1, <2>1, KeyStrokeServes
<1>2. CASE e.kind = "button" /\ Button(e, failed)
  <2>1. e \in Clicks BY <1>2 DEF Works, KeyStrokes, Clicks, Moves, Others
  <2> QED BY <1>2, <2>1, ButtonServes
<1>3. CASE e.kind = "motion" /\ PointerMove(e, failed)
  <2>1. e \in Moves BY <1>3 DEF Works, KeyStrokes, Clicks, Moves, Others
  <2>2. e.at \in Spots BY <2>1 DEF Moves
  <2> QED BY <1>3, <2>2, MotionServes
<1>4. CASE e.kind = "scroll" /\ Scroll(e)
  <2>1. e \in Moves BY <1>4 DEF Works, KeyStrokes, Clicks, Moves, Others
  <2>2. e.at \in Spots BY <2>1 DEF Moves
  <2> QED BY <1>4, <2>2, ScrollServes
<1>5. CASE Text
  BY <1>5, KnownStays DEF Text, Served, InputInv, InputType
<1> QED BY <1>1, <1>2, <1>3, <1>4, <1>5 DEF Adapter

\* poll_loop executes the event at the head of the queue: its press belongs to the holder.
LEMMA ExecuteKeeps ==
  ASSUME InputInv, NEW failed \in BOOLEAN, Execute(failed)
  PROVE  InputInv'
<1> DEFINE q == target.queue
           e == target.queue[1]
<1>0. target \in Targets /\ q \in Seq(Works) /\ world \in Worlds /\ held \in Helds BY DEF InputInv, InputType, Targets
<1>1. q # <<>> /\ Head(q) = e /\ e \in Works /\ Tail(q) \in Seq(Works) /\ e.kind # "cleanup" /\ 1 \in 1..Len(q)
  <2>1. q # <<>> BY DEF Execute, Polling
  <2>2. Head(q) = e /\ e \in Works /\ Tail(q) \in Seq(Works) /\ 1 \in 1..Len(q) BY <1>0, <2>1, Takes
  <2> QED BY <2>1, <2>2 DEF Execute, Work
<1>2. /\ PressRule(q, target.used, held.keys) /\ QueueRule(q, target.holder, conn)
      /\ HolderRule(q, target.holder, exec.poll, exec.kept, held.keys)
  BY DEF InputInv
<1>3. world' \in Worlds /\ world'.pid = world.pid BY <1>0, FaultCounts DEF Execute
<1>4. IsDown(e) => e.press \notin DOMAIN held.keys BY <1>1, <1>2 DEF PressRule
<1>5. Served(e)
  <2>1. CASE UNCHANGED <<held, app>> BY <2>1, <1>3, KnownStays DEF Served, InputInv, InputType
  <2>2. CASE Adapter(e, failed) BY <2>2, <1>1, <1>3, <1>4, AdapterServes
  <2> QED BY <1>1, <2>1, <2>2 DEF Execute, Work
<1>6. target' = [target EXCEPT !.queue = Tail(q)] /\ UNCHANGED <<conn, exec>> BY DEF Execute
<1>7. target' \in Targets /\ target'.queue = Tail(q) /\ target'.used = target.used /\ target'.holder = target.holder
  BY <1>0, <1>1, <1>6 DEF Targets
<1>8. \A p \in DOMAIN held'.keys : p \in DOMAIN held.keys \/ (IsDown(e) /\ p = e.press) BY <1>5 DEF Served
<1>9. PressRule(target.queue, target.used, held.keys)'
  <2>1. PressRule(Tail(q), target.used, held'.keys) BY <1>0, <1>1, <1>2, <1>8, PressDone
  <2> QED BY <2>1, <1>7
<1>10. QueueRule(target.queue, target.holder, conn)'
  <2>1. QueueRule(Tail(q), target.holder, conn) BY <1>0, <1>1, <1>2, QueueTaken
  <2> QED BY <2>1, <1>6, <1>7
<1>11. HolderRule(target.queue, target.holder, exec.poll, exec.kept, held.keys)'
  <2>1. exec.poll = "idle" BY DEF Execute, Polling
  <2>2. IsDown(e) => OwnerOf(e.press) = target.holder BY <1>1, <1>2 DEF QueueRule, IsDown
  <2>3. \A p \in DOMAIN held'.keys : OwnerOf(p) = target.holder \/ p \in exec.kept
    BY <1>2, <1>8, <2>2 DEF HolderRule
  <2> QED BY <1>6, <1>7, <2>1, <2>3 DEF HolderRule
<1> QED BY <1>3, <1>5, <1>6, <1>7, <1>9, <1>10, <1>11 DEF InputInv, InputType, Served

\* A caller's own motion or scroll on the surface.
LEMMA RoutePointerKeeps ==
  ASSUME InputInv, NEW x \in Points, RoutePointer(x)
  PROVE  InputInv'
<1> DEFINE m == [kind |-> "motion", at |-> x]
           s == [kind |-> "scroll", at |-> x]
           no == FALSE
<1>1. world' \in Worlds /\ world'.pid = world.pid BY FaultCounts DEF RoutePointer, InputInv, InputType
<1>2. m.at \in Spots /\ s.at \in Spots /\ no \in BOOLEAN BY DEF Spots
<1>3. \E e : Served(e)
  <2>1. CASE PointerMove(m, no)
    <3> HIDE DEF m, no
    <3> QED BY <1>1, <1>2, <2>1, MotionServes
  <2>2. CASE Scroll(s)
    <3> HIDE DEF s
    <3> QED BY <1>1, <1>2, <2>2, ScrollServes
  <2> QED BY <2>1, <2>2 DEF RoutePointer
<1>4. held'.keys = held.keys
  <2>1. held \in Helds BY DEF InputInv, InputType
  <2>2. (\E B : held' = [held EXCEPT !.buttons = B]) \/ held' = held BY DEF RoutePointer, PointerMove, Scroll
  <2> QED BY <2>1, <2>2 DEF Helds
<1>5. UNCHANGED <<conn, target, exec>> BY DEF RoutePointer
<1>6. held' \in Helds /\ app' \in Downs /\ DownIsHeld' /\ HeldPointIsThePointer' BY <1>3 DEF Served
<1> QED BY <1>1, <1>4, <1>5, <1>6, QuietStep DEF InputInv, InputType

\* release_held empties the held state; a key or button whose event could not be made is loose.
LEMMA ReleaseServes ==
  ASSUME InputInv, NEW failed \in BOOLEAN, NEW lost \in Unposted(failed), ReleaseHeld(lost), world'.pid = world.pid
  PROVE  /\ held' \in Helds /\ app' \in Downs /\ DownIsHeld' /\ HeldPointIsThePointer'
         /\ DOMAIN held'.keys \subseteq DOMAIN held.keys
<1>0. held \in Helds /\ app \in Downs /\ held.keys \in Bindings BY DEF InputInv, InputType, Helds
<1>1. DownIsHeld /\ HeldPointIsThePointer BY DEF InputInv
<1>2. CASE UNCHANGED <<held, app>> BY <1>0, <1>1, <1>2, KnownStays
<1>3. CASE /\ held' = [held EXCEPT !.keys = NothingHeld.keys, !.buttons = {}]
           /\ app' = [app EXCEPT !.keys = (@ \ Range(held.keys)) \union (lost \intersect @),
                                 !.button = @ /\ (held.buttons = {} \/ "button" \in lost),
                                 !.loose = @ \union (lost \intersect (app.keys \union {"button"}))]
  <2> DEFINE flags == BOOLEAN
             somekeys == SUBSET Codes
             someb == {{}} \union {{x} : x \in Points}
             ks == (app.keys \ Range(held.keys)) \union (lost \intersect app.keys)
             b == app.button /\ (held.buttons = {} \/ "button" \in lost)
             ls == app.loose \union (lost \intersect (app.keys \union {"button"}))
             nokeys == NothingHeld.keys
             none == {}
  <2>1. /\ app \in [keys: somekeys, button: flags, pointer: Points, loose: Loose, strayed: flags]
        /\ held \in [keys: Bindings, buttons: someb, driven: flags]
        /\ nokeys \in Bindings /\ none \in someb
    BY <1>0, EmptyBinds DEF Helds, Downs, Loose
  <2>2. app.keys \in SUBSET Codes /\ app.loose \in Loose BY <2>1
  <2>3. ks \in somekeys /\ ls \in Loose /\ b \in flags BY <2>2 DEF Loose
  <2>4. held' = [held EXCEPT !.keys = nokeys, !.buttons = none]
        /\ app' = [app EXCEPT !.keys = ks, !.button = b, !.loose = ls]
    BY <1>3
  <2>5. world.pid => ks \subseteq ls BY <1>1 DEF DownIsHeld
  <2>6. world.pid /\ b => "button" \in ls BY <1>1 DEF DownIsHeld
  <2> HIDE DEF flags, somekeys, someb, ks, b, ls, nokeys, none, Loose
  <2>7. held' \in [keys: Bindings, buttons: someb, driven: flags] /\ held'.keys = nokeys /\ held'.buttons = none
    BY <2>1, <2>4
  <2>8. app' \in [keys: somekeys, button: flags, pointer: Points, loose: Loose, strayed: flags] BY <2>1, <2>3, <2>4
  <2>9. app'.keys = ks /\ app'.button = b /\ app'.loose = ls BY <2>1, <2>3, <2>4
  <2>10. DownIsHeld' BY <2>5, <2>6, <2>9 DEF DownIsHeld
  <2>11. HeldPointIsThePointer' BY <2>7 DEF HeldPointIsThePointer, none
  <2>12. held' \in Helds /\ app' \in Downs BY <2>7, <2>8 DEF Helds, Downs, flags, someb, somekeys, Loose
  <2>13. DOMAIN held'.keys \subseteq DOMAIN held.keys BY <2>7, EmptyBinds DEF nokeys
  <2> QED BY <2>10, <2>11, <2>12, <2>13
<1> QED BY <1>2, <1>3 DEF ReleaseHeld

\* The first part of the cleanup barrier: what is still bound is what is left over.
LEMMA CleanupKeeps ==
  ASSUME InputInv, NEW failed \in BOOLEAN, CleanupRelease(failed)
  PROVE  InputInv'
<1>0. exec \in Executors /\ world \in Worlds BY DEF InputInv, InputType
<1>1. world' \in Worlds /\ world'.pid = world.pid BY <1>0, FaultCounts DEF CleanupRelease
<1>2. PICK lost \in Unposted(failed) : ReleaseHeld(lost) BY DEF CleanupRelease
<1>3. /\ held' \in Helds /\ app' \in Downs /\ DownIsHeld' /\ HeldPointIsThePointer'
      /\ DOMAIN held'.keys \subseteq DOMAIN held.keys
  BY <1>1, <1>2, ReleaseServes
<1> DEFINE kept == DOMAIN held'.keys \union (IF held'.buttons = {} THEN {} ELSE {"button"})
<1>4. exec' = [exec EXCEPT !.poll = "end_drive", !.kept = kept] /\ UNCHANGED <<conn, target>> BY DEF CleanupRelease
<1>5. kept \in SUBSET (Presses \union {"button"}) /\ DOMAIN held'.keys \subseteq kept BY <1>3, BindingsAre DEF Helds
<1> HIDE DEF kept
<1>6. exec' \in Executors /\ exec'.poll = "end_drive" /\ exec'.kept = kept BY <1>0, <1>4, <1>5 DEF Executors
<1>7. target.queue # <<>> /\ target.queue[1].kind = "cleanup"
  <2>1. target.queue \in Seq(Works) /\ target.queue # <<>> BY DEF InputInv, InputType, Targets, CleanupRelease, Polling
  <2> QED BY <2>1, Takes DEF CleanupRelease, Work
<1>8. PressRule(target.queue, target.used, held.keys)' BY <1>3, <1>4 DEF InputInv, PressRule
<1>9. QueueRule(target.queue, target.holder, conn)' BY <1>4 DEF InputInv
<1>10. HolderRule(target.queue, target.holder, exec.poll, exec.kept, held.keys)'
  BY <1>4, <1>5, <1>6, <1>7 DEF HolderRule
<1> QED BY <1>1, <1>3, <1>4, <1>6, <1>8, <1>9, <1>10 DEF InputInv, InputType

-----------------------------------------------------------------------------
(* Remote input as a whole.                                                *)

\* Before anybody connects nothing is down.
LEMMA InputBegins ==
  ASSUME InputInit
  PROVE  InputInv
<1>1. conn \in Conns BY DEF InputInit, Conns
<1>2. target \in Targets /\ target.queue = <<>> /\ target.used = {} /\ target.holder = NoOne
  <2> DEFINE empty == <<>>
             none == {}
             zero == 0
  <2>1. target = [holder |-> NoOne, queue |-> empty, sent |-> zero, used |-> none] BY DEF InputInit
  <2>2. empty \in Seq(Works) /\ zero \in 0..MaxSent /\ none \in SUBSET Presses BY InputAssumption
  <2> HIDE DEF empty, none, zero
  <2>3. target \in Targets /\ target.queue = empty /\ target.used = none /\ target.holder = NoOne
    BY <2>1, <2>2 DEF Targets
  <2> QED BY <2>3 DEF empty, none
<1>3. exec \in Executors /\ exec.poll = "idle" BY DEF InputInit, Executors
<1>4. held \in Helds /\ held.keys = NothingHeld.keys /\ held.buttons = {}
  <2> DEFINE flags == BOOLEAN
             none == {}
             no == FALSE
             nokeys == NothingHeld.keys
             someb == {none} \union {{x} : x \in Points}
  <2>1. nokeys \in Bindings /\ none \in someb /\ no \in flags BY EmptyBinds
  <2>2. held = [keys |-> nokeys, buttons |-> none, driven |-> no] BY DEF InputInit, NothingHeld
  <2> HIDE DEF flags, none, no, nokeys, someb
  <2>3. held \in [keys: Bindings, buttons: someb, driven: flags] /\ held.keys = nokeys /\ held.buttons = none
    BY <2>1, <2>2
  <2> QED BY <2>3 DEF flags, none, nokeys, someb, Helds
<1>5. app \in Downs /\ app.keys = {} /\ ~app.button
  <2> DEFINE flags == BOOLEAN
             none == {}
             no == FALSE
             somekeys == SUBSET Codes
             x == CHOOSE y \in Points : TRUE
  <2>1. none \in somekeys /\ none \in Loose /\ no \in flags /\ x \in Points BY InputAssumption DEF Loose
  <2>2. app = [keys |-> none, button |-> no, pointer |-> x, loose |-> none, strayed |-> no] BY DEF InputInit
  <2> HIDE DEF flags, none, no, somekeys, x, Loose
  <2>3. app \in [keys: somekeys, button: flags, pointer: Points, loose: Loose, strayed: flags]
        /\ app.keys = none /\ app.button = no
    BY <2>1, <2>2
  <2> QED BY <2>3 DEF flags, none, no, somekeys, Loose, Downs
<1>6. world \in Worlds
  <2> DEFINE flags == BOOLEAN
             yes == TRUE
             zero == 0
  <2>1. yes \in flags /\ zero \in 0..MaxFaults BY InputAssumption
  <2>2. world = [alive |-> yes, pid |-> yes, ax |-> yes, faults |-> zero] BY DEF InputInit
  <2> HIDE DEF flags, yes, zero
  <2>3. world \in [alive: flags, pid: flags, ax: flags, faults: 0..MaxFaults] BY <2>1, <2>2
  <2> QED BY <2>3 DEF flags, Worlds
<1>7. PressRule(target.queue, target.used, held.keys) BY <1>2, <1>4, EmptyBinds DEF PressRule
<1>8. QueueRule(target.queue, target.holder, conn) BY <1>2 DEF QueueRule, InputInit
<1>9. HolderRule(target.queue, target.holder, exec.poll, exec.kept, held.keys) BY <1>3, <1>4, EmptyBinds DEF HolderRule
<1>10. DownIsHeld /\ HeldPointIsThePointer BY <1>4, <1>5 DEF DownIsHeld, HeldPointIsThePointer
<1> QED BY <1>1, <1>2, <1>3, <1>4, <1>5, <1>6, <1>7, <1>8, <1>9, <1>10 DEF InputInv, InputType

\* Every step of controllers, executor, callers and world keeps the invariant.
LEMMA InputKeeps ==
  ASSUME InputInv, InputNext
  PROVE  InputInv'
<1>1. CASE \E c \in Controllers : Connect(c) \/ Hello(c) \/ Leave(c) \/ Accept(c)
  BY <1>1, ConnectKeeps, HelloKeeps, LeaveKeeps
<1>2. CASE \E c \in Controllers : \E e \in KeyEvents(c) \union ButtonEvents \union OtherEvents : Send(c, e)
  BY <1>2, SendKeeps
<1>3. CASE BeginDrive \/ EndDrive BY <1>3, DriveKeeps
<1>4. CASE \E f \in BOOLEAN : Execute(f) \/ CleanupRelease(f) BY <1>4, ExecuteKeeps, CleanupKeeps
<1>5. CASE CompleteCleanup BY <1>5, CompleteKeeps
<1>6. CASE AcceptEnds BY <1>6, AcceptEndsKeeps
<1>7. CASE Stop \/ PollEnds \/ DropReturns BY <1>7, ThreadsKeep
<1>8. CASE \E k \in Codes, f \in BOOLEAN : RouteKey(k, f) BY <1>8, RouteKeyKeeps
<1>9. CASE \E x \in Points, f \in BOOLEAN : RouteClick(x, f) BY <1>9, RouteClickKeeps
<1>10. CASE \E x \in Points : RoutePointer(x) BY <1>10, RoutePointerKeeps
<1>11. CASE SurfaceDies \/ RevokeAccessibility \/ GrantAccessibility BY <1>11, WorldKeeps
<1>12. CASE ProcessDies BY <1>12, ProcessDiesKeeps
<1> QED BY <1>1, <1>2, <1>3, <1>4, <1>5, <1>6, <1>7, <1>8, <1>9, <1>10, <1>11, <1>12 DEF InputNext

\* Nothing of it changes while another part runs.
LEMMA InputRests ==
  ASSUME InputInv, UNCHANGED inputVars
  PROVE  InputInv'
BY DEF InputInv, InputType, PressRule, QueueRule, HolderRule, DownIsHeld, HeldPointIsThePointer, inputVars

\* The invariant shows the properties.
LEMMA InputShows ==
  ASSUME InputInv
  PROVE  HeldInputIsKnown
<1>1. InputTypeOK
  <2>1. conn \in Conns /\ target \in Targets /\ exec \in Executors /\ held \in Helds /\ app \in Downs /\ world \in Worlds
    BY DEF InputInv, InputType
  <2>2. target.holder \in Controllers \union {NoOne} /\ target.sent \in 0..MaxSent /\ target.used \subseteq Presses
        /\ target.queue \in Seq(Works)
    BY <2>1 DEF Targets
  <2>3. \A n \in DOMAIN target.queue :
          target.queue[n].kind \in {"key", "button", "motion", "scroll", "text", "logical", "cleanup"}
    <3>1. \A n \in DOMAIN target.queue : target.queue[n] \in Works BY <2>2
    <3>2. \A e \in Works : e.kind \in {"key", "button", "motion", "scroll", "text", "logical", "cleanup"}
      BY DEF Works, KeyStrokes, Clicks, Moves, Others
    <3> QED BY <3>1, <3>2
  <2>4. held.keys \in Bindings /\ held.buttons \in {{}} \union {{x} : x \in Points} /\ held.driven \in BOOLEAN
    BY <2>1 DEF Helds
  <2>5. DOMAIN held.keys \subseteq Presses /\ Range(held.keys) \subseteq Codes BY <2>4, BindingsAre
  <2>6. held.buttons \subseteq Points /\ Cardinality(held.buttons) <= 1
    <3>1. CASE held.buttons = {} BY <3>1, FS_EmptySet
    <3>2. CASE \E x \in Points : held.buttons = {x} BY <3>2, FS_Singleton
    <3> QED BY <2>4, <3>1, <3>2
  <2>7. app.keys \subseteq Codes /\ app.button \in BOOLEAN /\ app.pointer \in Points
        /\ app.loose \subseteq Codes \union {"button"} /\ app.strayed \in BOOLEAN
    BY <2>1 DEF Downs
  <2> QED BY <2>1, <2>2, <2>3, <2>4, <2>5, <2>6, <2>7 DEF InputTypeOK, Conns, Executors, Worlds
<1>2. NoInheritedPress BY DEF InputInv, NoInheritedPress, QueueRule, HolderRule
<1>3. DownIsHeld /\ HeldPointIsThePointer BY DEF InputInv
<1> QED BY <1>1, <1>2, <1>3 DEF HeldInputIsKnown

\* Whatever controllers, callers, faults and the stop of the executor do, and in whatever
\* order controllers come: every key and button down at the application is recorded where
\* release_held finds it, but for the loose ones; a controller inherits no press that the
\* cleanup before it could release; and a drag is recorded where the pointer is
\* (input_executor.rs poll_loop, porthole-adapter-macos input.rs).
THEOREM RemoteInputIsKnown ==
  AdaptersInit /\ [][AdaptersNext]_<<part, adapterVars>> => []HeldInputIsKnown
<1>1. AdaptersInit => InputInv BY InputBegins DEF AdaptersInit
<1>2. InputInv /\ [AdaptersNext]_<<part, adapterVars>> => InputInv'
  <2> SUFFICES ASSUME InputInv, [AdaptersNext]_<<part, adapterVars>> PROVE InputInv'
    OBVIOUS
  <2>1. InputNext \/ UNCHANGED inputVars
    BY DEF AdaptersNext, InputPart, WindowsLaunchPart, WindowsPart, BridgePart, PortalPart,
           KWinLaunchPart, ShotPart, MacPart, adapterVars
  <2> QED BY <2>1, InputKeeps, InputRests
<1>3. InputInv => HeldInputIsKnown BY InputShows
<1> QED BY <1>1, <1>2, <1>3, PTL

-----------------------------------------------------------------------------
(* Windows: the launched process tree.                                     *)

Procs == [pid : Pids, parent : Pids \cup {0}, born : 0..MaxClock, died : 0..MaxClock, ours : BOOLEAN]
Links == [pid : Pids, parent : Pids \cup {0}]
Windows == [owner : 0..MaxProcs, id : 0..MaxWindows, cookie : 0..MaxWindows]
Launches == {"new", "loop", "observe", "look", "mark", "confirm", "done", "failed"}
Snapshots == [at : {"none", "reading", "taken"}, started : 0..MaxClock, links : SUBSET Links]
Candidates == [hwnd : Hwnds \cup {0}, cookie : Nat, pid : Pids \cup {0}]
LaunchCalls == [at : Launches, found : Candidates]

\* The processes ps that exist at time now: a pid is one living process, and a process that was alive before and after
\* the birth of another, and has its parent's pid, is its parent.
ProcsRule(ps, now) ==
  /\ ps \in Seq(Procs) /\ Len(ps) <= MaxProcs
  /\ \A i \in 1..Len(ps) : ps[i].born <= now /\ ps[i].died <= now
  /\ \A i, j \in 1..Len(ps) : ps[i].pid = ps[j].pid /\ ps[i].died = 0 /\ ps[j].died = 0 => i = j
  /\ \A i, t \in 1..Len(ps) :
       ps[t].pid = ps[i].parent /\ ps[t].born < ps[i].born /\ (ps[t].died = 0 \/ ps[i].born < ps[t].died)
         => ps[t].ours = ps[i].ours

\* A retained process has the pid it is retained under.
TreeRule(ps, tr) ==
  \A p \in DOMAIN tr : p \in Pids /\ tr[p] \in 1..Len(ps) /\ ps[tr[p]].pid = p /\ ps[tr[p]].ours

\* Whoever has a link's pid, and was there when the clock was read, is the process of the link.
SnapRule(ps, now, sn) ==
  /\ sn \in Snapshots
  /\ sn.at # "none" => sn.started <= now
  /\ \A l \in sn.links : sn.at = "taken" /\ \A i \in 1..Len(ps) :
       ps[i].pid = l.pid /\ ps[i].died = 0 /\ ps[i].born < sn.started => ps[i].parent = l.parent

\* A window is of a living process.
WinRule(ps, ws) ==
  /\ ws \in [Hwnds -> Windows]
  /\ \A h \in Hwnds : ws[h] # NoWindow => ws[h].owner \in 1..Len(ps) /\ ps[ws[h].owner].died = 0

LaunchRule(x) == x \in LaunchCalls /\ (x.at = "mark" => x.found.hwnd \in Hwnds)

LaunchInv ==
  /\ ProcsRule(procs, wclock) /\ wclock \in 1..MaxClock
  /\ TreeRule(procs, tree) /\ SnapRule(procs, wclock, snap) /\ WinRule(procs, win) /\ serial \in 0..MaxWindows
  /\ LaunchRule(launch) /\ LaunchedSurfaceIsOurs

\* A list of processes that grew by one, or in which processes exited: what was there keeps who it is.
Later(ps, qs, now) ==
  /\ Len(ps) <= Len(qs)
  /\ \A i \in 1..Len(ps) : /\ qs[i].pid = ps[i].pid /\ qs[i].parent = ps[i].parent /\ qs[i].born = ps[i].born
                           /\ qs[i].ours = ps[i].ours /\ (qs[i].died = 0 => ps[i].died = 0)
  /\ \A i \in 1..Len(qs) : i \notin 1..Len(ps) => qs[i].born = now

\* Tree and snapshot stay right as processes come and go.
LEMMA LaterKeeps ==
  ASSUME NEW ps, NEW qs, NEW now, NEW tr, NEW sn, Len(ps) \in Nat, Len(qs) \in Nat, now \in Nat,
         Later(ps, qs, now), TreeRule(ps, tr), SnapRule(ps, now, sn)
  PROVE  TreeRule(qs, tr) /\ SnapRule(qs, now, sn)
<1>1. \A i \in 1..Len(ps) : i \in 1..Len(qs)
  BY DEF Later
<1>2. TreeRule(qs, tr)
  BY <1>1 DEF Later, TreeRule
<1>3. ASSUME NEW l \in sn.links, NEW i \in 1..Len(qs), qs[i].pid = l.pid, qs[i].died = 0, qs[i].born < sn.started
      PROVE  qs[i].parent = l.parent
  <2>1. sn.started <= now /\ sn.started \in Nat
    BY DEF SnapRule, Snapshots
  <2>2. i \in 1..Len(ps)
    BY <1>3, <2>1 DEF Later
  <2>. QED
    BY <1>3, <2>2 DEF Later, SnapRule
<1>. QED
  BY <1>2, <1>3 DEF SnapRule

\* A new process has a pid that no living one has, and its parent lives.
LEMMA BornKeeps ==
  ASSUME ProcsRule(procs, wclock), wclock \in 1..MaxClock, Len(procs) < MaxProcs,
         NEW p \in FreePids, NEW parent \in Pids \cup {0}, NEW ours \in BOOLEAN,
         parent = 0 \/ \E k \in 1..Len(procs) : Alive(k) /\ procs[k].pid = parent /\ procs[k].ours = ours,
         procs' = Born(p, parent, ours)
  PROVE  /\ ProcsRule(procs', wclock) /\ Later(procs, procs', wclock) /\ Len(procs') = Len(procs) + 1
         /\ \A i \in 1..Len(procs) : procs'[i] = procs[i]
         /\ procs'[Len(procs) + 1].pid = p /\ procs'[Len(procs) + 1].ours = ours
<1>. DEFINE n == Len(procs) + 1
           x == [pid |-> p, parent |-> parent, born |-> wclock, died |-> 0, ours |-> ours]
<1>0. MaxClock \in Nat /\ MaxProcs \in Nat /\ 0 \notin Pids
  BY WindowsLaunchAssumption
<1>1. p \in Pids /\ \A i \in 1..Len(procs) : procs[i].pid = p => procs[i].died # 0
  BY DEF FreePids, Alive, ProcsRule
<1>2. x \in Procs
  BY <1>0, <1>1 DEF Procs
<1>3. x.pid = p /\ x.parent = parent /\ x.born = wclock /\ x.died = 0 /\ x.ours = ours
  OBVIOUS
<1>4. procs \in Seq(Procs) /\ Len(procs) \in Nat /\ procs' = Append(procs, x)
  BY DEF ProcsRule, Born
<1>. HIDE DEF x
<1>5. procs' \in Seq(Procs) /\ Len(procs') = n /\ procs'[n] = x /\ \A i \in 1..Len(procs) : procs'[i] = procs[i]
  BY <1>2, <1>4
<1>6. \A i \in 1..n : i = n \/ i \in 1..Len(procs)
  BY <1>4
<1>7. Later(procs, procs', wclock)
  BY <1>3, <1>4, <1>5, <1>6 DEF Later
<1>8. \A i \in 1..n : procs'[i].born <= wclock /\ procs'[i].died <= wclock
  BY <1>0, <1>3, <1>5, <1>6 DEF ProcsRule
<1>9. \A i, j \in 1..n : procs'[i].pid = procs'[j].pid /\ procs'[i].died = 0 /\ procs'[j].died = 0 => i = j
  BY <1>1, <1>3, <1>5, <1>6 DEF ProcsRule
<1>10. ASSUME NEW i \in 1..n, NEW t \in 1..n, procs'[t].pid = procs'[i].parent, procs'[t].born < procs'[i].born,
              procs'[t].died = 0 \/ procs'[i].born < procs'[t].died
       PROVE  procs'[t].ours = procs'[i].ours
  <2>1. t \in 1..Len(procs) /\ procs'[t] = procs[t] /\ procs[t] \in Procs
    <3>1. CASE t = n
      <4>1. procs'[i].born <= wclock /\ procs'[i].born \in Nat /\ procs'[t].born = wclock
        <5>1. procs'[i] \in Procs
          BY <1>5
        <5>2. procs'[i].born \in Nat
          BY <5>1 DEF Procs
        <5>. QED
          BY <1>3, <1>5, <1>8, <3>1, <5>2
      <4>. QED
        BY <1>0, <1>10, <4>1
    <3>. QED
      BY <1>4, <1>5, <1>6, <3>1
  <2>2. CASE i # n
    <3>1. i \in 1..Len(procs) /\ procs'[i] = procs[i]
      BY <1>5, <1>6, <2>2
    <3>. QED
      BY <1>10, <2>1, <3>1 DEF ProcsRule
  <2>3. CASE i = n
    <3>1. procs[t].pid = parent /\ procs[t].died <= wclock /\ procs[t].died \in Nat /\ procs'[i].born = wclock /\ procs'[i].ours = ours
      <4>1. procs'[i] = x
        BY <1>5, <2>3
      <4>2. procs[t].died \in Nat
        BY <2>1 DEF Procs
      <4>3. procs[t].died <= wclock
        BY <2>1 DEF ProcsRule
      <4>. QED
        BY <1>3, <1>10, <2>1, <4>1, <4>2, <4>3
    <3>2. procs[t].died = 0
      BY <1>0, <1>10, <2>1, <3>1
    <3>3. parent # 0
      BY <1>0, <2>1, <3>1 DEF Procs
    <3>4. PICK k \in 1..Len(procs) : procs[k].died = 0 /\ procs[k].pid = parent /\ procs[k].ours = ours
      BY <3>3 DEF Alive
    <3>5. k = t
      BY <2>1, <3>1, <3>2, <3>4 DEF ProcsRule
    <3>. QED
      BY <2>1, <3>1, <3>4, <3>5
  <2>. QED
    BY <2>2, <2>3
<1>11. n <= MaxProcs
  BY <1>0, <1>4
<1>. QED
  BY <1>3, <1>5, <1>7, <1>8, <1>9, <1>10, <1>11 DEF ProcsRule

\* A process exits.
LEMMA ExitKeeps ==
  ASSUME ProcsRule(procs, wclock), wclock \in 1..MaxClock, NEW k \in 1..Len(procs), Alive(k),
         procs' = [procs EXCEPT ![k].died = wclock]
  PROVE  /\ ProcsRule(procs', wclock) /\ Later(procs, procs', wclock) /\ Len(procs') = Len(procs)
         /\ \A i \in 1..Len(procs) : i # k => procs'[i] = procs[i]
<1>. DEFINE x == [procs[k] EXCEPT !.died = wclock]
<1>0. MaxClock \in Nat
  BY WindowsLaunchAssumption
<1>1. procs \in Seq(Procs) /\ Len(procs) \in Nat /\ procs[k] \in Procs /\ procs[k].died = 0
  BY DEF ProcsRule, Alive
<1>2. x \in Procs
  <2>1. wclock \in 0..MaxClock
    BY <1>0
  <2>. QED
    BY <1>1, <2>1 DEF Procs
<1>3. /\ x.pid = procs[k].pid /\ x.parent = procs[k].parent /\ x.born = procs[k].born /\ x.ours = procs[k].ours
      /\ x.died = wclock
  BY <1>1 DEF Procs
<1>4. procs' = [procs EXCEPT ![k] = x]
  BY <1>1
<1>. HIDE DEF x
<1>5. procs' \in Seq(Procs) /\ Len(procs') = Len(procs) /\ procs'[k] = x /\ \A i \in 1..Len(procs) : i # k => procs'[i] = procs[i]
  BY <1>1, <1>2, <1>4
<1>6. \A i \in 1..Len(procs) :
        /\ procs'[i].pid = procs[i].pid /\ procs'[i].parent = procs[i].parent /\ procs'[i].born = procs[i].born
        /\ procs'[i].ours = procs[i].ours /\ procs'[i].died = (IF i = k THEN wclock ELSE procs[i].died)
  BY <1>3, <1>5
<1>7. wclock # 0 /\ wclock \in Nat
  BY <1>0
<1>8. Later(procs, procs', wclock)
  BY <1>1, <1>5, <1>6, <1>7 DEF Later
<1>9. \A i \in 1..Len(procs) : procs'[i].born <= wclock /\ procs'[i].died <= wclock
  BY <1>6, <1>7 DEF ProcsRule
<1>10. \A i, j \in 1..Len(procs) : procs'[i].pid = procs'[j].pid /\ procs'[i].died = 0 /\ procs'[j].died = 0 => i = j
  BY <1>6, <1>7 DEF ProcsRule
<1>11. ASSUME NEW i \in 1..Len(procs), NEW t \in 1..Len(procs), procs'[t].pid = procs'[i].parent, procs'[t].born < procs'[i].born,
              procs'[t].died = 0 \/ procs'[i].born < procs'[t].died
       PROVE  procs'[t].ours = procs'[i].ours
  <2>1. procs[t].died = 0 \/ procs[i].born < procs[t].died
    BY <1>1, <1>6, <1>11
  <2>. QED
    BY <1>6, <1>11, <2>1 DEF ProcsRule
<1>. QED
  BY <1>5, <1>8, <1>9, <1>10, <1>11 DEF ProcsRule

\* One process is running when the launch starts.
LEMMA LaunchBegins ==
  ASSUME WindowsLaunchInit
  PROVE  LaunchInv
<1>. DEFINE x == [pid |-> CHOOSE p \in Pids : TRUE, parent |-> 0, born |-> 0, died |-> 0, ours |-> FALSE]
<1>0. MaxClock \in Nat \ {0} /\ MaxProcs \in Nat \ {0} /\ MaxWindows \in Nat \ {0} /\ Pids # {} /\ 0 \notin Pids
  BY WindowsLaunchAssumption
<1>1. x \in Procs
  <2>1. (CHOOSE p \in Pids : TRUE) \in Pids
    BY <1>0
  <2>. HIDE DEF x
  <2>. DEFINE r == CHOOSE p \in Pids : TRUE
  <2>2. x = [pid |-> r, parent |-> 0, born |-> 0, died |-> 0, ours |-> FALSE]
    BY DEF x
  <2>. HIDE DEF r
  <2>. QED
    BY <1>0, <2>1, <2>2 DEF r, Procs
<1>2. x.pid \in Pids /\ x.parent = 0 /\ x.born = 0 /\ x.died = 0
  BY <1>1 DEF Procs
<1>. HIDE DEF x
<1>3. procs = <<x>>
  BY DEF WindowsLaunchInit, x
<1>4. procs \in Seq(Procs) /\ Len(procs) = 1 /\ procs[1] = x
  BY <1>1, <1>3
<1>5. \A i \in 1..1 : i = 1
  OBVIOUS
<1>6. ProcsRule(procs, wclock) /\ wclock = 1
  BY <1>0, <1>2, <1>4, <1>5 DEF WindowsLaunchInit, ProcsRule
<1>7. DOMAIN tree = {} /\ snap = NoSnapshot
  BY DEF WindowsLaunchInit
<1>8. TreeRule(procs, tree) /\ SnapRule(procs, wclock, snap)
  BY <1>0, <1>7 DEF TreeRule, SnapRule, Snapshots, NoSnapshot
<1>9. WinRule(procs, win)
  BY <1>0 DEF WindowsLaunchInit, WinRule, NoWindow, Windows
<1>10. LaunchRule(launch) /\ launch.at = "new"
  BY DEF WindowsLaunchInit, LaunchRule, LaunchCalls, Launches, Candidates, NoCandidate
<1>11. serial \in 0..MaxWindows
  BY <1>0 DEF WindowsLaunchInit
<1>. QED
  BY <1>0, <1>6, <1>8, <1>9, <1>10, <1>11 DEF LaunchInv, LaunchedSurfaceIsOurs

\* Windows stay with their processes, and what the launch returned stays what it is.
LEMMA SurfaceKeeps ==
  ASSUME LaunchInv, launch'.at = "done" => launch' = launch,
         \A h \in Hwnds : /\ win'[h] \in {win[h], NoWindow} \/ win'[h].cookie = 0
                          /\ win'[h] = win[h] /\ win[h] # NoWindow =>
                               /\ procs'[win[h].owner].pid = procs[win[h].owner].pid
                               /\ procs'[win[h].owner].ours = procs[win[h].owner].ours
  PROVE  LaunchedSurfaceIsOurs'
<1>. SUFFICES ASSUME launch'.at = "done", CandidateResolves(launch.found)'
              PROVE  procs'[win'[launch'.found.hwnd].owner].ours
  BY DEF LaunchedSurfaceIsOurs
<1>. DEFINE h == launch.found.hwnd
<1>1. launch' = launch /\ h \in Hwnds /\ win'[h] # NoWindow /\ launch.found.cookie # 0 /\ win'[h].cookie = launch.found.cookie
      /\ procs'[win'[h].owner].pid = launch.found.pid
  BY DEF CandidateResolves
<1>2. win'[h] = win[h]
  BY <1>1
<1>3. CandidateResolves(launch.found)
  BY <1>1, <1>2 DEF CandidateResolves
<1>4. procs[win[h].owner].ours
  BY <1>1, <1>3 DEF LaunchInv, LaunchedSurfaceIsOurs
<1>. QED
  BY <1>1, <1>2, <1>4

\* What is known before a step.
LEMMA LaunchKnown ==
  ASSUME LaunchInv
  PROVE  /\ procs \in Seq(Procs) /\ Len(procs) \in Nat /\ DOMAIN procs = 1..Len(procs) /\ Len(procs) <= MaxProcs
         /\ ProcsRule(procs, wclock) /\ wclock \in 1..MaxClock /\ wclock \in Nat
         /\ TreeRule(procs, tree) /\ SnapRule(procs, wclock, snap) /\ WinRule(procs, win) /\ serial \in 0..MaxWindows
         /\ LaunchRule(launch) /\ LaunchedSurfaceIsOurs
         /\ MaxClock \in Nat \ {0} /\ MaxProcs \in Nat \ {0} /\ MaxWindows \in Nat \ {0} /\ 0 \notin Pids
BY WindowsLaunchAssumption DEF LaunchInv, ProcsRule

\* Time passes; processes start and exit; windows open and close.
LEMMA SystemKeeps ==
  ASSUME LaunchInv,
         \/ TimePasses
         \/ \E i \in DOMAIN procs : Exit(i) \/ (\E p \in Pids : Fork(i, p)) \/ (\E h \in Hwnds : OpenWindow(i, h))
         \/ \E h \in Hwnds : CloseWindow(h)
  PROVE  LaunchInv'
<1>1. CASE TimePasses
  <2>1. wclock' = wclock + 1 /\ wclock' \in 1..MaxClock /\ UNCHANGED <<procs, tree, snap, win, serial, launch>>
    BY <1>1, LaunchKnown DEF TimePasses
  <2>2. \A i \in 1..Len(procs) : procs[i].born \in Nat /\ procs[i].died \in Nat
    <3>1. \A i \in 1..Len(procs) : procs[i] \in Procs
      BY LaunchKnown
    <3>. QED
      BY <3>1 DEF Procs
  <2>3. \A i \in 1..Len(procs) : procs[i].born <= wclock' /\ procs[i].died <= wclock'
    BY <2>1, <2>2, LaunchKnown DEF ProcsRule
  <2>4. ProcsRule(procs, wclock)'
    BY <2>1, <2>3, LaunchKnown DEF ProcsRule
  <2>5. SnapRule(procs, wclock, snap)'
    <3>1. snap.started \in Nat /\ (snap.at # "none" => snap.started <= wclock)
      BY LaunchKnown DEF SnapRule, Snapshots
    <3>2. snap.at # "none" => snap.started <= wclock'
      BY <2>1, <3>1, LaunchKnown
    <3>. QED
      BY <2>1, <3>2, LaunchKnown DEF SnapRule
  <2>. QED
    BY <2>1, <2>4, <2>5, LaunchKnown DEF LaunchInv, LaunchedSurfaceIsOurs, CandidateResolves
<1>2. ASSUME NEW i \in 1..Len(procs), Exit(i) PROVE LaunchInv'
  <2>1. /\ Alive(i) /\ procs' = [procs EXCEPT ![i].died = wclock]
        /\ win' = [h \in Hwnds |-> IF win[h].owner = i THEN NoWindow ELSE win[h]]
        /\ UNCHANGED <<wclock, tree, snap, serial, launch>>
    BY <1>2 DEF Exit
  <2>2. /\ ProcsRule(procs', wclock) /\ Later(procs, procs', wclock) /\ Len(procs') = Len(procs)
        /\ \A j \in 1..Len(procs) : j # i => procs'[j] = procs[j]
    BY <2>1, LaunchKnown, ExitKeeps
  <2>3. TreeRule(procs, tree)' /\ SnapRule(procs, wclock, snap)'
    <3>1. TreeRule(procs', tree) /\ SnapRule(procs', wclock, snap)
      BY <2>2, LaunchKnown, LaterKeeps
    <3>. QED
      BY <2>1, <3>1
  <2>4. WinRule(procs, win)'
    <3>1. NoWindow \in Windows
      BY LaunchKnown DEF NoWindow, Windows
    <3>2. win' \in [Hwnds -> Windows]
      BY <2>1, <3>1, LaunchKnown DEF WinRule
    <3>3. ASSUME NEW h \in Hwnds, win'[h] # NoWindow PROVE win'[h].owner \in 1..Len(procs') /\ procs'[win'[h].owner].died = 0
      <4>1. win'[h] = win[h] /\ win[h].owner # i /\ win[h] # NoWindow
        BY <2>1, <3>3
      <4>. QED
        BY <2>2, <4>1, LaunchKnown DEF WinRule
    <3>. QED
      BY <3>2, <3>3 DEF WinRule
  <2>5. LaunchedSurfaceIsOurs'
    <3>1. \A h \in Hwnds : win'[h] \in {win[h], NoWindow}
      BY <2>1
    <3>2. \A h \in Hwnds : win'[h] = win[h] /\ win[h] # NoWindow =>
            procs'[win[h].owner].pid = procs[win[h].owner].pid /\ procs'[win[h].owner].ours = procs[win[h].owner].ours
      BY <2>2, LaunchKnown DEF WinRule, Later
    <3>. QED
      BY <2>1, <3>1, <3>2, SurfaceKeeps
  <2>. QED
    BY <2>1, <2>2, <2>3, <2>4, <2>5, LaunchKnown DEF LaunchInv
<1>3. ASSUME NEW i \in 1..Len(procs), NEW p \in Pids, Fork(i, p) PROVE LaunchInv'
  <2>1. /\ Alive(i) /\ procs' = Born(p, procs[i].pid, procs[i].ours) /\ p \in FreePids /\ Len(procs) < MaxProcs
        /\ UNCHANGED <<wclock, tree, snap, win, serial, launch>>
    BY <1>3 DEF Fork
  <2>2. procs[i].pid \in Pids /\ procs[i].ours \in BOOLEAN
    <3>1. procs[i] \in Procs
      BY LaunchKnown
    <3>. QED
      BY <3>1 DEF Procs
  <2>3. /\ ProcsRule(procs', wclock) /\ Later(procs, procs', wclock) /\ Len(procs') = Len(procs) + 1
        /\ \A j \in 1..Len(procs) : procs'[j] = procs[j]
    BY <2>1, <2>2, LaunchKnown, BornKeeps
  <2>4. TreeRule(procs, tree)' /\ SnapRule(procs, wclock, snap)'
    <3>1. TreeRule(procs', tree) /\ SnapRule(procs', wclock, snap)
      BY <2>3, LaunchKnown, LaterKeeps
    <3>. QED
      BY <2>1, <3>1
  <2>5. WinRule(procs, win)'
    BY <2>1, <2>3, LaunchKnown DEF WinRule
  <2>6. LaunchedSurfaceIsOurs'
    <3>1. \A h \in Hwnds : win[h] # NoWindow => procs'[win[h].owner] = procs[win[h].owner]
      BY <2>3, LaunchKnown DEF WinRule
    <3>. QED
      BY <2>1, <3>1, SurfaceKeeps
  <2>. QED
    BY <2>1, <2>3, <2>4, <2>5, <2>6, LaunchKnown DEF LaunchInv
<1>4. ASSUME NEW i \in 1..Len(procs), NEW h \in Hwnds, OpenWindow(i, h) PROVE LaunchInv'
  <2>. DEFINE w == [owner |-> i, id |-> serial + 1, cookie |-> 0]
  <2>1. /\ Alive(i) /\ serial < MaxWindows /\ serial' = serial + 1 /\ win' = [win EXCEPT ![h] = w]
        /\ UNCHANGED <<procs, wclock, tree, snap, launch>>
    BY <1>4 DEF OpenWindow
  <2>2. w \in Windows /\ serial' \in 0..MaxWindows
    BY <2>1, LaunchKnown DEF Windows
  <2>3. w.owner = i /\ w.cookie = 0
    OBVIOUS
  <2>. HIDE DEF w
  <2>4. WinRule(procs, win)'
    BY <2>1, <2>2, <2>3, LaunchKnown DEF WinRule, Alive
  <2>5. LaunchedSurfaceIsOurs'
    <3>1. \A g \in Hwnds : win'[g] = win[g] \/ win'[g].cookie = 0
      BY <2>1, <2>3, LaunchKnown DEF WinRule
    <3>. QED
      BY <2>1, <3>1, SurfaceKeeps
  <2>. QED
    BY <2>1, <2>2, <2>4, <2>5, LaunchKnown DEF LaunchInv
<1>5. ASSUME NEW h \in Hwnds, CloseWindow(h) PROVE LaunchInv'
  <2>1. win' = [win EXCEPT ![h] = NoWindow] /\ UNCHANGED <<procs, wclock, tree, snap, serial, launch>>
    BY <1>5 DEF CloseWindow
  <2>2. NoWindow \in Windows
    BY LaunchKnown DEF NoWindow, Windows
  <2>3. WinRule(procs, win)'
    BY <2>1, <2>2, LaunchKnown DEF WinRule
  <2>4. LaunchedSurfaceIsOurs'
    <3>1. \A g \in Hwnds : win'[g] \in {win[g], NoWindow}
      BY <2>1, LaunchKnown DEF WinRule
    <3>. QED
      BY <2>1, <3>1, SurfaceKeeps
  <2>. QED
    BY <2>1, <2>3, <2>4, LaunchKnown DEF LaunchInv
<1>. QED
  BY <1>1, <1>2, <1>3, <1>4, <1>5, LaunchKnown

\* A step of the launch call that leaves processes and windows alone and is not the last one.
LEMMA CallerKeeps ==
  ASSUME LaunchInv, UNCHANGED <<procs, wclock, win, serial>>, TreeRule(procs, tree)', SnapRule(procs, wclock, snap)',
         LaunchRule(launch)', launch'.at = "done" => launch' = launch
  PROVE  LaunchInv'
<1>1. LaunchedSurfaceIsOurs'
  BY SurfaceKeeps
<1>. QED
  BY ZenonT(40), <1>1, LaunchKnown DEF LaunchInv, ProcsRule, WinRule

\* The call goes to another place.
LEMMA LaunchGoes ==
  ASSUME LaunchInv, NEW to \in Launches, launch' = [launch EXCEPT !.at = to], to # "mark"
  PROVE  LaunchRule(launch)' /\ launch'.at = to
<1>1. launch \in LaunchCalls
  BY LaunchKnown DEF LaunchRule
<1>2. launch' \in LaunchCalls
  BY <1>1 DEF LaunchCalls
<1>3. launch'.at = to
  BY <1>1 DEF LaunchCalls
<1>. QED
  BY <1>2, <1>3 DEF LaunchRule

\* The process is spawned and retained, or the launch fails.
LEMMA SpawnKeeps ==
  ASSUME LaunchInv, NEW p \in Pids, Launch(p)
  PROVE  LaunchInv'
<1>0. launch.at = "new" /\ UNCHANGED <<wclock, snap, win, serial>> /\ launch \in LaunchCalls
  BY LaunchKnown DEF Launch, LaunchRule
<1>1. ASSUME NEW to \in {"loop", "failed"}, launch' = [launch EXCEPT !.at = to]
      PROVE  LaunchRule(launch)' /\ launch'.at # "done"
  <2>1. to \in Launches /\ to # "mark"
    BY DEF Launches
  <2>. QED
    BY <1>1, <2>1, LaunchGoes
<1>2. CASE Len(procs) < MaxProcs /\ p \in FreePids /\ procs' = Born(p, 0, TRUE)
           /\ tree' = [q \in {p} |-> Len(procs) + 1] /\ launch' = [launch EXCEPT !.at = "loop"]
  <2>1. /\ ProcsRule(procs', wclock) /\ Later(procs, procs', wclock) /\ Len(procs') = Len(procs) + 1
        /\ \A i \in 1..Len(procs) : procs'[i] = procs[i]
        /\ procs'[Len(procs) + 1].pid = p /\ procs'[Len(procs) + 1].ours = TRUE
    BY <1>2, LaunchKnown, BornKeeps
  <2>2. DOMAIN tree' = {p} /\ tree'[p] = Len(procs) + 1
    BY <1>2
  <2>3. TreeRule(procs, tree)'
    BY <2>1, <2>2, LaunchKnown DEF TreeRule
  <2>4. SnapRule(procs, wclock, snap)'
    <3>1. SnapRule(procs', wclock, snap)
      BY <2>1, LaunchKnown, LaterKeeps
    <3>. QED
      BY <1>0, <3>1
  <2>5. WinRule(procs, win)'
    BY <1>0, <2>1, LaunchKnown DEF WinRule
  <2>6. LaunchRule(launch)' /\ launch'.at # "done"
    BY <1>1, <1>2
  <2>. QED
    BY <1>0, <2>1, <2>3, <2>4, <2>5, <2>6, LaunchKnown DEF LaunchInv, LaunchedSurfaceIsOurs
<1>3. CASE launch' = [launch EXCEPT !.at = "failed"] /\ UNCHANGED <<procs, tree>>
  <2>1. LaunchRule(launch)' /\ launch'.at # "done"
    BY <1>1, <1>3
  <2>. QED
    BY <1>0, <1>3, <2>1, LaunchKnown, CallerKeeps
<1>. QED
  BY <1>2, <1>3 DEF Launch

\* The clock is read, then the snapshot is taken, and given up after it was observed.
LEMMA SnapKeeps ==
  ASSUME LaunchInv, ReadClock \/ TakeSnapshot \/ Observed
  PROVE  LaunchInv'
<1>0. UNCHANGED <<procs, wclock, tree, win, serial>> /\ TreeRule(procs, tree)'
  BY LaunchKnown DEF ReadClock, TakeSnapshot, Observed
<1>1. CASE ReadClock
  <2>1. snap'.at = "reading" /\ snap'.started = wclock /\ snap'.links = {} /\ launch' = launch
    BY <1>1 DEF ReadClock
  <2>2. SnapRule(procs, wclock, snap)'
    <3>1. snap' \in Snapshots
      BY <1>1, LaunchKnown DEF ReadClock, Snapshots
    <3>. QED
      BY <1>0, <2>1, <3>1, LaunchKnown DEF SnapRule
  <2>. QED
    BY <1>0, <2>1, <2>2, LaunchKnown, CallerKeeps
<1>2. CASE TakeSnapshot
  <2>. DEFINE links == {[pid |-> procs[i].pid, parent |-> procs[i].parent] : i \in {j \in DOMAIN procs : Alive(j)}}
  <2>1. snap.at = "reading" /\ snap' = [snap EXCEPT !.at = "taken", !.links = links] /\ launch' = [launch EXCEPT !.at = "observe"]
    BY <1>2 DEF TakeSnapshot
  <2>2. links \subseteq Links
    <3>1. \A i \in 1..Len(procs) : procs[i] \in Procs
      BY LaunchKnown
    <3>. QED
      BY <3>1, LaunchKnown DEF Procs, Links
  <2>3. ASSUME NEW l \in links, NEW i \in 1..Len(procs), procs[i].pid = l.pid, procs[i].died = 0 PROVE procs[i].parent = l.parent
    <3>1. PICK j \in 1..Len(procs) : procs[j].died = 0 /\ l = [pid |-> procs[j].pid, parent |-> procs[j].parent]
      BY LaunchKnown DEF Alive
    <3>2. i = j
      BY <2>3, <3>1, LaunchKnown DEF ProcsRule
    <3>. QED
      BY <3>1, <3>2
  <2>. HIDE DEF links
  <2>4. snap \in Snapshots /\ snap.started <= wclock
    BY <2>1, LaunchKnown DEF SnapRule
  <2>5. snap' \in Snapshots
    BY <2>1, <2>2, <2>4 DEF Snapshots
  <2>6. snap'.at = "taken" /\ snap'.started = snap.started /\ snap'.links = links
    BY <2>1, <2>4 DEF Snapshots
  <2>7. SnapRule(procs, wclock, snap)'
    BY <1>0, <2>3, <2>4, <2>5, <2>6 DEF SnapRule
  <2>8. LaunchRule(launch)' /\ launch'.at = "observe"
    <3>1. "observe" \in Launches
      BY DEF Launches
    <3>. QED
      BY <2>1, <3>1, LaunchGoes
  <2>. QED
    BY <1>0, <2>7, <2>8, CallerKeeps
<1>3. CASE Observed
  <2>1. snap' = NoSnapshot /\ launch' = [launch EXCEPT !.at = "look"]
    BY <1>3 DEF Observed
  <2>2. SnapRule(procs, wclock, snap)'
    BY <2>1, LaunchKnown DEF SnapRule, Snapshots, NoSnapshot
  <2>3. LaunchRule(launch)' /\ launch'.at = "look"
    <3>1. "look" \in Launches
      BY DEF Launches
    <3>. QED
      BY <2>1, <3>1, LaunchGoes
  <2>. QED
    BY <1>0, <2>2, <2>3, CallerKeeps
<1>. QED
  BY <1>1, <1>2, <1>3

\* A link whose birth fits is of a process whose parent is retained, so it is ours.
LEMMA ObserveKeeps ==
  ASSUME LaunchInv, NEW l \in snap.links, Observe(l)
  PROVE  LaunchInv'
<1>0. l.pid \notin DOMAIN tree /\ l.parent \in DOMAIN tree /\ UNCHANGED <<procs, wclock, snap, win, serial, launch>>
  BY DEF Observe
<1>1. PICK i \in 1..Len(procs) :
        /\ procs[i].pid = l.pid /\ Alive(i) /\ ValidBirth(tree[l.parent], i)
        /\ tree' = [p \in DOMAIN tree \union {l.pid} |-> IF p = l.pid THEN i ELSE tree[p]]
  BY LaunchKnown DEF Observe
<1>. DEFINE t == tree[l.parent]
<1>2. t \in 1..Len(procs) /\ procs[t].pid = l.parent /\ procs[t].ours
  BY <1>0, LaunchKnown DEF TreeRule
<1>3. procs[i].parent = l.parent
  BY <1>1, LaunchKnown DEF SnapRule, ValidBirth, Alive
<1>4. procs[t].born < procs[i].born /\ (procs[t].died = 0 \/ procs[i].born < procs[t].died)
  BY <1>1 DEF ValidBirth
<1>. HIDE DEF t
<1>5. procs[i].ours
  BY <1>2, <1>3, <1>4, LaunchKnown DEF ProcsRule
<1>6. l.pid \in Pids
  BY LaunchKnown DEF SnapRule, Snapshots, Links
<1>7. TreeRule(procs, tree)'
  BY <1>0, <1>1, <1>5, <1>6, LaunchKnown DEF TreeRule
<1>8. SnapRule(procs, wclock, snap)' /\ LaunchRule(launch)'
  BY <1>0, LaunchKnown
<1>. QED
  BY <1>0, <1>7, <1>8, CallerKeeps

\* A window of the tree is found.
LEMMA UniqueKeeps ==
  ASSUME LaunchInv, UniqueWindow
  PROVE  LaunchInv'
<1>0. UNCHANGED <<procs, wclock, tree, snap, win, serial>>
  BY DEF UniqueWindow
<1>1. CASE Cardinality(Owned) = 1
           /\ launch' = [at |-> "mark", found |-> [NoCandidate EXCEPT !.hwnd = CHOOSE h \in Owned : TRUE]]
  <2>. DEFINE h == CHOOSE g \in Owned : TRUE
  <2>1. Owned # {}
    BY <1>1, FS_EmptySet
  <2>2. h \in Hwnds
    BY <2>1 DEF Owned
  <2>3. launch' = [at |-> "mark", found |-> [hwnd |-> h, cookie |-> 0, pid |-> 0]]
    BY <1>1 DEF NoCandidate
  <2>. HIDE DEF h
  <2>4. LaunchRule(launch)' /\ launch'.at = "mark"
    BY <2>2, <2>3 DEF LaunchRule, LaunchCalls, Launches, Candidates
  <2>. QED
    BY <1>0, <2>4, LaunchKnown, CallerKeeps
<1>2. ASSUME NEW to \in {"loop", "failed"}, launch' = [launch EXCEPT !.at = to] PROVE LaunchInv'
  <2>1. to \in Launches /\ to # "mark" /\ to # "done"
    BY DEF Launches
  <2>2. LaunchRule(launch)' /\ launch'.at # "done"
    BY <1>2, <2>1, LaunchGoes
  <2>. QED
    BY <1>0, <2>2, LaunchKnown, CallerKeeps
<1>. QED
  BY <1>1, <1>2 DEF UniqueWindow

\* The window that has the handle is marked.
LEMMA MarkKeeps ==
  ASSUME LaunchInv, MarkCandidate
  PROVE  LaunchInv'
<1>. DEFINE h == launch.found.hwnd
<1>0. launch.at = "mark" /\ h \in Hwnds /\ UNCHANGED <<procs, wclock, tree, snap, serial>>
  BY LaunchKnown DEF MarkCandidate, LaunchRule
<1>1. CASE win[h] # NoWindow /\ win' = [win EXCEPT ![h].cookie = win[h].id]
           /\ launch' = [at |-> "confirm", found |-> [hwnd |-> h, cookie |-> win[h].id, pid |-> procs[win[h].owner].pid]]
  <2>. DEFINE w == [win[h] EXCEPT !.cookie = win[h].id]
             o == win[h].owner
             n == win[h].id
             p == procs[o].pid
  <2>1. win[h] \in Windows /\ o \in 1..Len(procs) /\ procs[o].died = 0
    BY <1>0, <1>1, LaunchKnown DEF WinRule
  <2>2. w \in Windows
    BY <2>1 DEF Windows
  <2>3. w.owner = o /\ win' = [win EXCEPT ![h] = w]
    BY <1>1, <2>1 DEF Windows
  <2>4. n \in Nat
    BY <2>1 DEF Windows
  <2>5. p \in Pids
    <3>1. procs[o] \in Procs
      BY <2>1, LaunchKnown
    <3>. QED
      BY <3>1 DEF Procs
  <2>6. launch' = [at |-> "confirm", found |-> [hwnd |-> h, cookie |-> n, pid |-> p]]
    BY <1>1
  <2>. HIDE DEF w, o, n, p
  <2>7. WinRule(procs, win)'
    BY <1>0, <2>1, <2>2, <2>3, LaunchKnown DEF WinRule
  <2>8. LaunchRule(launch)' /\ launch'.at = "confirm"
    BY <1>0, <2>4, <2>5, <2>6 DEF LaunchRule, LaunchCalls, Launches, Candidates
  <2>. QED
    BY <1>0, <2>7, <2>8, LaunchKnown DEF LaunchInv, LaunchedSurfaceIsOurs
<1>2. CASE launch' = [launch EXCEPT !.at = "failed"] /\ UNCHANGED win
  <2>1. "failed" \in Launches
    BY DEF Launches
  <2>2. LaunchRule(launch)' /\ launch'.at = "failed"
    BY <1>2, <2>1, LaunchGoes
  <2>. QED
    BY <1>0, <1>2, <2>2, LaunchKnown, CallerKeeps
<1>3. CASE launch' = [at |-> "loop", found |-> NoCandidate] /\ UNCHANGED win
  <2>1. LaunchRule(launch)' /\ launch'.at = "loop"
    BY <1>3 DEF LaunchRule, LaunchCalls, Launches, Candidates, NoCandidate
  <2>. QED
    BY <1>0, <1>3, <2>1, LaunchKnown, CallerKeeps
<1>. QED
  BY <1>1, <1>2, <1>3 DEF MarkCandidate

\* The owner of the window handed out lives, and so does the retained process of its pid: they are one.
LEMMA ConfirmKeeps ==
  ASSUME LaunchInv, Confirm
  PROVE  LaunchInv'
<1>0. UNCHANGED <<procs, wclock, tree, snap, win, serial>>
  BY DEF Confirm
<1>1. CASE CandidateResolves(launch.found) /\ OwnsWindow(launch.found.hwnd) /\ launch' = [launch EXCEPT !.at = "done"]
  <2>. DEFINE h == launch.found.hwnd
             o == win[h].owner
             t == tree[procs[o].pid]
  <2>1. h \in Hwnds /\ win[h] # NoWindow /\ procs[o].pid \in DOMAIN tree /\ procs[t].died = 0
    BY Zenon, <1>1 DEF CandidateResolves, OwnsWindow, Alive
  <2>2. o \in 1..Len(procs) /\ procs[o].died = 0
    BY Zenon, <2>1, LaunchKnown DEF WinRule
  <2>3. t \in 1..Len(procs) /\ procs[t].pid = procs[o].pid /\ procs[t].ours
    BY Zenon, <2>1, LaunchKnown DEF TreeRule
  <2>. HIDE DEF t
  <2>4. procs[o].ours
    BY <2>1, <2>2, <2>3, LaunchKnown DEF ProcsRule
  <2>5. launch'.found = launch.found
    <3>1. launch \in LaunchCalls
      BY LaunchKnown DEF LaunchRule
    <3>. QED
      BY <1>1, <3>1 DEF LaunchCalls
  <2>6. LaunchedSurfaceIsOurs'
    BY <1>0, <2>4, <2>5 DEF LaunchedSurfaceIsOurs
  <2>7. LaunchRule(launch)'
    <3>1. "done" \in Launches
      BY DEF Launches
    <3>. QED
      BY <1>1, <3>1, LaunchGoes
  <2>. QED
    BY <1>0, <2>6, <2>7, LaunchKnown DEF LaunchInv
<1>2. ASSUME NEW to \in {"loop", "failed"}, launch' = [at |-> to, found |-> NoCandidate] PROVE LaunchInv'
  <2>1. LaunchRule(launch)' /\ launch'.at = to
    BY <1>2 DEF LaunchRule, LaunchCalls, Launches, Candidates, NoCandidate
  <2>. QED
    BY <1>0, <2>1, LaunchKnown, CallerKeeps
<1>. QED
  BY <1>1, <1>2 DEF Confirm

\* Every step keeps the invariant.
LEMMA LaunchKeeps ==
  ASSUME LaunchInv, WindowsLaunchNext
  PROVE  LaunchInv'
BY SystemKeeps, SpawnKeeps, SnapKeeps, ObserveKeeps, UniqueKeeps, MarkKeeps, ConfirmKeeps DEF WindowsLaunchNext

LEMMA LaunchRests ==
  ASSUME LaunchInv, UNCHANGED launchVars
  PROVE  LaunchInv'
BY DEF LaunchInv, ProcsRule, TreeRule, SnapRule, WinRule, LaunchRule, LaunchedSurfaceIsOurs, CandidateResolves, launchVars

\* What the launch promises follows.
LEMMA LaunchPromise ==
  ASSUME LaunchInv
  PROVE  WindowsLaunchTypeOK /\ TreeIsOurs /\ LaunchedSurfaceIsOurs
<1>1. \A i \in DOMAIN procs : procs[i] \in Procs
  BY LaunchKnown
<1>2. WindowsLaunchTypeOK
  BY <1>1, LaunchKnown DEF WindowsLaunchTypeOK, Procs, Links, TreeRule, SnapRule, Snapshots, WinRule, Windows, LaunchRule,
     LaunchCalls, Launches, Range
<1>. QED
  BY <1>2, LaunchKnown DEF TreeRule, TreeIsOurs

-----------------------------------------------------------------------------
(* Windows: calls on marked windows.                                       *)

CallPlaces == {"none", "lock", "focus", "poll", "send", "insert", "ok", "lost", "dead", "refused", "printing", "printed",
               "abandoned"}
GivenSurfaces == [h : Handles \cup {Desktop}, cookie : Nat, id : Nat]
CallRecords == [at : CallPlaces, s : GivenSurfaces, left : Int, upset : BOOLEAN, took : Nat]

\* A mark is the number of the window that carries it, and a surface keeps the number it was given for.
MarkInv ==
  /\ wnd \in [Handles -> [id : Nat, cookie : Nat]] /\ cookies \in [Handles -> Nat] /\ surf \in [Handles -> GivenSurfaces]
  /\ \A h \in Handles : wnd[h].cookie \in {0, wnd[h].id}
  /\ \A h \in Handles : surf[h].h = h /\ surf[h].cookie = surf[h].id

\* A call x of c keeps the surface it was made for.  From its focus to its last batch it holds the input
\* lock, and the foreground it got is lost to outsiders only.
CallRule(c, x, front, holder) ==
  /\ x.at # "none" => x.s.h \in Handles /\ x.s.cookie = x.s.id
  /\ x.at \in {"focus", "poll", "send", "insert"} => holder = c
  /\ x.at \in {"send", "insert"} => front = x.s.h \/ x.upset
  /\ x.at = "lost" => x.upset

CallsInv ==
  /\ MarkInv
  /\ fg \in Handles \cup {Desktop} /\ lock \in Callers \cup {Nobody}
  /\ call \in [Callers -> CallRecords]
  /\ \A c \in Callers : CallRule(c, call[c], fg, lock)
  /\ down \subseteq {"modifier", "key", "blocked"} /\ (down = {} \/ "blocked" \in down) /\ events \in 0..MaxEvents

\* The invariant holds at the start.
LEMMA CallsInitially == WindowsCallsInit => CallsInv
<1>. SUFFICES ASSUME WindowsCallsInit PROVE CallsInv
  OBVIOUS
<1>1. NoCall \in CallRecords /\ NoCall.at = "none"
  BY DEF NoCall, CallRecords, CallPlaces, NoSurface, GivenSurfaces
<1>2. MarkInv
  BY DEF WindowsCallsInit, MarkInv, GivenSurfaces
<1>3. call \in [Callers -> CallRecords] /\ \A c \in Callers : CallRule(c, call[c], fg, lock)
  BY <1>1 DEF WindowsCallsInit, CallRule
<1>. QED
  BY <1>2, <1>3, WindowsCallsAssumption DEF WindowsCallsInit, CallsInv

\* A step of one call: the others keep their rule, since whoever needs the lock or the foreground holds the lock.
LEMMA OneCall ==
  ASSUME CallsInv, NEW c \in Callers, NEW x \in CallRecords,
         call' = [call EXCEPT ![c] = x], CallRule(c, x, fg', lock'),
         lock' \in Callers \cup {Nobody}, lock' = lock \/ lock \in {c, Nobody},
         fg' \in Handles \cup {Desktop}, fg' = fg \/ lock = c
  PROVE  call' \in [Callers -> CallRecords] /\ \A d \in Callers : CallRule(d, call'[d], fg', lock')
<1>1. call \in [Callers -> CallRecords]
  BY DEF CallsInv
<1>2. ASSUME NEW d \in Callers, d # c PROVE CallRule(d, call'[d], fg', lock')
  <2>1. call'[d] = call[d] /\ CallRule(d, call[d], fg, lock)
    BY <1>1, <1>2 DEF CallsInv
  <2>. QED
    BY <1>2, <2>1, WindowsCallsAssumption DEF CallRule
<1>. QED
  BY <1>1, <1>2

\* What the fields of a call and of a surface are after an action set them.
LEMMA PlaceSet ==
  ASSUME NEW x \in CallRecords, NEW p \in CallPlaces
  PROVE  /\ [x EXCEPT !.at = p] \in CallRecords /\ [x EXCEPT !.at = p].at = p
         /\ [x EXCEPT !.at = p].s = x.s /\ [x EXCEPT !.at = p].upset = x.upset
BY DEF CallRecords

\* Ending a call gives the lock back if the call holds it.
LEMMA EndsKeeps ==
  ASSUME CallsInv, NEW c \in Callers, NEW p \in {"ok", "lost", "dead", "refused"}, call[c].at \in {"focus", "poll", "send", "insert"},
         p = "lost" => call[c].upset, Ends(c, p), UNCHANGED <<wnd, cookies, surf, fg>>,
         down' \subseteq {"modifier", "key", "blocked"}, down' = {} \/ "blocked" \in down', events' \in 0..MaxEvents
  PROVE  CallsInv'
<1>. DEFINE x == [call[c] EXCEPT !.at = p]
<1>1. call \in [Callers -> CallRecords] /\ p \in CallPlaces /\ CallRule(c, call[c], fg, lock)
  BY DEF CallsInv, CallPlaces
<1>2. x \in CallRecords /\ x.at = p /\ x.s = call[c].s /\ x.upset = call[c].upset
  BY <1>1, PlaceSet
<1>3. call' = [call EXCEPT ![c] = x] /\ lock' = Nobody /\ lock = c
  BY <1>1 DEF Ends, CallRule
<1>. HIDE DEF x
<1>4. CallRule(c, x, fg', lock')
  BY <1>1, <1>2 DEF CallRule
<1>5. call' \in [Callers -> CallRecords] /\ \A d \in Callers : CallRule(d, call'[d], fg', lock')
  BY <1>2, <1>3, <1>4, OneCall DEF CallsInv
<1>. QED
  BY <1>3, <1>5 DEF CallsInv, MarkInv

\* A call that goes on holds the lock or does without it.
LEMMA MovesKeeps ==
  ASSUME CallsInv, NEW c \in Callers, NEW x \in CallRecords, call' = [call EXCEPT ![c] = x], CallRule(c, x, fg', lock'),
         lock' \in Callers \cup {Nobody}, lock' = lock \/ lock \in {c, Nobody},
         fg' \in Handles \cup {Desktop}, fg' = fg \/ lock = c,
         UNCHANGED <<wnd, cookies, surf, down, events>>
  PROVE  CallsInv'
BY OneCall DEF CallsInv, MarkInv

\* Somebody outside takes the foreground or replaces a window: every call is upset.
LEMMA UpsetKeeps ==
  ASSUME CallsInv, call' = [c \in Callers |-> [call[c] EXCEPT !.upset = TRUE]], lock' = lock
  PROVE  call' \in [Callers -> CallRecords] /\ \A c \in Callers : CallRule(c, call'[c], fg', lock')
<1>1. call \in [Callers -> CallRecords]
  BY DEF CallsInv
<1>2. ASSUME NEW c \in Callers
      PROVE  /\ call'[c] \in CallRecords /\ call'[c].at = call[c].at /\ call'[c].s = call[c].s /\ call'[c].upset
  BY <1>1 DEF CallRecords
<1>3. \A c \in Callers : CallRule(c, call'[c], fg', lock')
  BY <1>2 DEF CallsInv, CallRule
<1>. QED
  BY <1>2, <1>3

\* Every action keeps it.
LEMMA CallsStep == CallsInv /\ [WindowsCallsNext]_wcVars => CallsInv'
<1>. SUFFICES ASSUME CallsInv, [WindowsCallsNext]_wcVars PROVE CallsInv'
  OBVIOUS
<1>0. /\ call \in [Callers -> CallRecords] /\ surf \in [Handles -> GivenSurfaces] /\ fg \in Handles \cup {Desktop}
      /\ lock \in Callers \cup {Nobody}
      /\ \A c \in Callers : CallRule(c, call[c], fg, lock)
      /\ \A h \in Handles : surf[h].h = h /\ surf[h].cookie = surf[h].id
  BY DEF CallsInv, MarkInv
<1>15. MaxEvents \in Nat /\ events \in 0..MaxEvents /\ MaxBatches \in Nat
  BY WindowsCallsAssumption DEF CallsInv
<1>16. NoCall \in CallRecords /\ "lock" \in CallPlaces /\ "focus" \in CallPlaces /\ "send" \in CallPlaces
       /\ \A p \in {"poll", "send", "insert", "ok", "dead", "refused", "printing", "printed", "abandoned"} : p \in CallPlaces
  <2>1. "none" \in CallPlaces /\ NoSurface \in GivenSurfaces
    BY DEF CallPlaces, NoSurface, GivenSurfaces
  <2>2. NoCall \in CallRecords
    BY <2>1 DEF NoCall, CallRecords
  <2>. QED
    BY <2>2 DEF CallPlaces
<1>1. ASSUME NEW h \in Handles, Identify(h) PROVE CallsInv'
  <2>1. wnd[h].id \in Nat /\ wnd[h].cookie \in Nat /\ wnd \in [Handles -> [id : Nat, cookie : Nat]]
    BY DEF CallsInv, MarkInv
  <2>2. CASE wnd[h].cookie # 0 /\ cookies[h] = wnd[h].cookie
    <3>. DEFINE t == [surf[h] EXCEPT !.cookie = wnd[h].cookie, !.id = wnd[h].id]
    <3>1. surf' = [surf EXCEPT ![h] = t] /\ UNCHANGED <<wnd, cookies>>
      BY <1>1, <2>2 DEF Identify
    <3>2. t \in GivenSurfaces /\ t.h = h /\ t.cookie = t.id
      <4>1. surf[h] \in GivenSurfaces /\ surf[h].h = h
        BY <1>0
      <4>2. wnd[h].cookie = wnd[h].id /\ wnd[h].id \in Nat
        BY <2>1, <2>2 DEF CallsInv, MarkInv
      <4>3. t \in GivenSurfaces
        BY <4>1, <4>2 DEF GivenSurfaces
      <4>4. t.h = surf[h].h /\ t.cookie = wnd[h].cookie /\ t.id = wnd[h].id
        BY <4>1 DEF GivenSurfaces
      <4>. HIDE DEF t
      <4>. QED
        BY <4>1, <4>2, <4>3, <4>4
    <3>. HIDE DEF t
    <3>3. MarkInv'
      BY <1>0, <3>1, <3>2 DEF CallsInv, MarkInv
    <3>. QED
      BY <1>1, <3>3 DEF CallsInv, Identify
  <2>3. CASE ~(wnd[h].cookie # 0 /\ cookies[h] = wnd[h].cookie)
    <3>. DEFINE t == [surf[h] EXCEPT !.cookie = wnd[h].id, !.id = wnd[h].id]
                v == [wnd[h] EXCEPT !.cookie = wnd[h].id]
    <3>1. /\ surf' = [surf EXCEPT ![h] = t] /\ wnd' = [wnd EXCEPT ![h] = v]
          /\ cookies' = [cookies EXCEPT ![h] = wnd[h].id]
      BY <1>1, <2>1, <2>3 DEF Identify
    <3>2. t \in GivenSurfaces /\ t.h = h /\ t.cookie = t.id
      <4>1. surf[h] \in GivenSurfaces /\ surf[h].h = h
        BY <1>0
      <4>2. t \in GivenSurfaces
        BY <2>1, <4>1 DEF GivenSurfaces
      <4>3. t.h = surf[h].h /\ t.cookie = wnd[h].id /\ t.id = wnd[h].id
        BY <4>1 DEF GivenSurfaces
      <4>. HIDE DEF t
      <4>. QED
        BY <4>1, <4>2, <4>3
    <3>3. v \in [id : Nat, cookie : Nat] /\ v.cookie = v.id
      BY <2>1
    <3>. HIDE DEF t, v
    <3>4. MarkInv'
      BY <1>0, <2>1, <3>1, <3>2, <3>3 DEF CallsInv, MarkInv
    <3>. QED
      BY <1>1, <3>4 DEF CallsInv, Identify
  <2>. QED
    BY <2>2, <2>3
<1>2. ASSUME NEW h \in Handles, Replace(h) PROVE CallsInv'
  <2>. DEFINE v == [id |-> wnd[h].id + 1, cookie |-> 0]
  <2>1. /\ call' = [c \in Callers |-> [call[c] EXCEPT !.upset = TRUE]] /\ UNCHANGED <<cookies, surf, lock, down>>
        /\ wnd' = [wnd EXCEPT ![h] = v] /\ fg' \in Handles \cup {Desktop} /\ events' \in 0..MaxEvents
    BY <1>0, <1>2, <1>15 DEF Replace
  <2>2. v \in [id : Nat, cookie : Nat] /\ v.cookie = 0
    BY DEF CallsInv, MarkInv
  <2>. HIDE DEF v
  <2>3. MarkInv'
    BY <2>1, <2>2 DEF CallsInv, MarkInv
  <2>. QED
    BY <2>1, <2>3, UpsetKeeps DEF CallsInv
<1>3. ASSUME NEW h \in Handles \cup {Desktop}, TakeForeground(h) PROVE CallsInv'
  <2>1. /\ call' = [c \in Callers |-> [call[c] EXCEPT !.upset = TRUE]] /\ UNCHANGED <<wnd, cookies, surf, lock, down>>
        /\ fg' \in Handles \cup {Desktop} /\ events' \in 0..MaxEvents
    BY <1>3, <1>15 DEF TakeForeground
  <2>. QED
    BY <2>1, UpsetKeeps DEF CallsInv, MarkInv
<1>4. ASSUME NEW c \in Callers, NEW h \in Handles, StartShot(c, h) PROVE CallsInv'
  <2>1. PICK p \in {"printing", "refused", "dead"} : call' = [call EXCEPT ![c] = [NoCall EXCEPT !.at = p, !.s = surf[h]]]
    BY <1>4 DEF StartShot
  <2>. DEFINE x == [NoCall EXCEPT !.at = p, !.s = surf[h]]
  <2>2. x \in CallRecords /\ x.at = p /\ x.s = surf[h]
    <3>1. surf[h] \in GivenSurfaces /\ p \in CallPlaces
      BY <1>0, <1>16, <2>1
    <3>2. x \in CallRecords
      BY <1>16, <3>1 DEF CallRecords
    <3>3. x.at = p
      BY <1>16 DEF CallRecords
    <3>4. x.s = surf[h]
      BY <1>16 DEF CallRecords
    <3>. QED
      BY <3>2, <3>3, <3>4
  <2>. HIDE DEF x
  <2>3. CallRule(c, x, fg, lock)
    BY <1>0, <2>1, <2>2 DEF CallRule
  <2>. QED
    BY <1>0, <1>4, <2>1, <2>2, <2>3, MovesKeeps DEF StartShot, x
<1>5. ASSUME NEW c \in Callers, NEW h \in Handles, NEW n \in 0..MaxBatches, Request(c, h, n) PROVE CallsInv'
  <2>. DEFINE x == [NoCall EXCEPT !.at = "lock", !.s = surf[h], !.left = n]
  <2>1. call' = [call EXCEPT ![c] = x]
    BY <1>5 DEF Request
  <2>2. x \in CallRecords /\ x.at = "lock" /\ x.s = surf[h]
    <3>1. surf[h] \in GivenSurfaces /\ n \in Int
      BY <1>0, <1>15
    <3>2. x \in CallRecords
      BY <1>16, <3>1 DEF CallRecords
    <3>3. x.at = "lock"
      BY <1>16 DEF CallRecords
    <3>4. x.s = surf[h]
      BY <1>16 DEF CallRecords
    <3>. QED
      BY <3>2, <3>3, <3>4
  <2>. HIDE DEF x
  <2>3. CallRule(c, x, fg, lock)
    BY <1>0, <2>2 DEF CallRule
  <2>. QED
    BY <1>0, <1>5, <2>1, <2>2, <2>3, MovesKeeps DEF Request
<1>6. ASSUME NEW c \in Callers, Lock(c) PROVE CallsInv'
  <2>. DEFINE x == [call[c] EXCEPT !.at = "focus", !.upset = FALSE]
  <2>1. call' = [call EXCEPT ![c] = x] /\ lock = Nobody /\ lock' = c /\ call[c].at = "lock"
    BY <1>0, <1>6 DEF Lock
  <2>2. x \in CallRecords /\ x.at = "focus" /\ x.s = call[c].s
    <3>1. call[c] \in CallRecords
      BY <1>0
    <3>2. x \in CallRecords
      BY <1>16, <3>1 DEF CallRecords
    <3>3. x.at = "focus"
      BY <3>1 DEF CallRecords
    <3>4. x.s = call[c].s
      BY <3>1 DEF CallRecords
    <3>. QED
      BY <3>2, <3>3, <3>4
  <2>. HIDE DEF x
  <2>3. CallRule(c, x, fg, lock')
    BY <1>0, <2>1, <2>2 DEF CallRule
  <2>. QED
    BY <1>0, <1>6, <2>1, <2>2, <2>3, MovesKeeps DEF Lock
<1>17. ASSUME NEW c \in Callers, NEW p \in {"poll", "send", "insert"}, call[c].at \in {"focus", "poll", "send"},
              call' = [call EXCEPT ![c].at = p], p # "poll" => fg = call[c].s.h,
              fg' = fg \/ (p = "poll" /\ fg' \in Handles), UNCHANGED <<wnd, cookies, surf, lock, down, events>>
       PROVE  CallsInv'
  <2>. DEFINE x == [call[c] EXCEPT !.at = p]
  <2>1. call' = [call EXCEPT ![c] = x] /\ lock = c
    BY <1>0, <1>17 DEF CallRule
  <2>2. x \in CallRecords /\ x.at = p /\ x.s = call[c].s /\ x.upset = call[c].upset
    <3>1. call[c] \in CallRecords /\ p \in CallPlaces
      BY <1>0, <1>16
    <3>. QED
      BY <3>1, PlaceSet
  <2>. HIDE DEF x
  <2>3. CallRule(c, x, fg', lock')
    BY <1>0, <1>17, <2>1, <2>2 DEF CallRule
  <2>. QED
    BY <1>0, <1>17, <2>1, <2>2, <2>3, MovesKeeps
<1>18. down \subseteq {"modifier", "key", "blocked"} /\ (down = {} \/ "blocked" \in down)
  BY DEF CallsInv
<1>7. ASSUME NEW c \in Callers, Activate(c) PROVE CallsInv'
  <2>1. CASE Resolves(call[c].s)
    <3>1. call[c].s.h \in Handles
      BY <1>0, <1>7 DEF Activate, CallRule
    <3>. QED
      BY <1>7, <1>17, <2>1, <3>1 DEF Activate
  <2>2. CASE ~Resolves(call[c].s)
    BY <1>7, <1>15, <1>18, <2>2, EndsKeeps DEF Activate
  <2>. QED
    BY <2>1, <2>2
<1>8. ASSUME NEW c \in Callers, Poll(c) PROVE CallsInv'
  <2>1. CASE call' = [call EXCEPT ![c].at = "send"] /\ UNCHANGED lock /\ fg = call[c].s.h
    BY <1>8, <1>17, <2>1 DEF Poll
  <2>2. CASE Ends(c, "ok") \/ Ends(c, "dead") \/ Ends(c, "refused")
    BY <1>8, <1>15, <1>18, <2>2, EndsKeeps DEF Poll
  <2>. QED
    BY <1>8, <2>1, <2>2 DEF Poll
<1>9. ASSUME NEW c \in Callers, CheckSend(c) PROVE CallsInv'
  <2>1. CASE fg = call[c].s.h /\ call' = [call EXCEPT ![c].at = "insert"] /\ UNCHANGED lock
    BY <1>9, <1>17, <2>1 DEF CheckSend
  <2>2. CASE fg # call[c].s.h /\ Ends(c, "lost")
    <3>1. call[c].upset
      BY <1>0, <1>9, <2>2 DEF CheckSend, CallRule
    <3>. QED
      BY <1>9, <1>15, <1>18, <2>2, <3>1, EndsKeeps DEF CheckSend
  <2>3. CASE Ends(c, "dead")
    BY <1>9, <1>15, <1>18, <2>3, EndsKeeps DEF CheckSend
  <2>. QED
    BY <1>9, <2>1, <2>2, <2>3 DEF CheckSend
<1>10. ASSUME NEW c \in Callers, SendInput(c) PROVE CallsInv'
  <2>0. call[c].at = "insert" /\ UNCHANGED <<wnd, cookies, surf, fg>>
    BY <1>10 DEF SendInput
  <2>1. CASE call[c].left = 1 /\ Inserted(c) /\ UNCHANGED <<down, events>>
    BY <1>15, <1>18, <2>0, <2>1, EndsKeeps DEF Inserted
  <2>2. CASE call[c].left # 1 /\ Inserted(c) /\ UNCHANGED <<down, events>>
    <3>. DEFINE x == [call[c] EXCEPT !.at = "send", !.left = call[c].left - 1]
    <3>0. call[c] \in CallRecords /\ call[c].left - 1 \in Int
      BY <1>0 DEF CallRecords
    <3>1. call' = [call EXCEPT ![c] = x] /\ lock' = lock
      BY <1>0, <2>2 DEF Inserted, CallRecords
    <3>2. x \in CallRecords /\ x.at = "send" /\ x.s = call[c].s /\ x.upset = call[c].upset
      <4>1. x \in CallRecords
        BY <1>16, <3>0 DEF CallRecords
      <4>2. x.at = "send"
        BY <3>0 DEF CallRecords
      <4>3. x.s = call[c].s /\ x.upset = call[c].upset
        BY <3>0 DEF CallRecords
      <4>. QED
        BY <4>1, <4>2, <4>3
    <3>. HIDE DEF x
    <3>3. CallRule(c, x, fg, lock)
      BY <1>0, <2>0, <3>2 DEF CallRule
    <3>. QED
      BY <1>0, <2>0, <2>2, <3>1, <3>2, <3>3, MovesKeeps
  <2>3. CASE events < MaxEvents /\ events' = events + 1 /\ Ends(c, "refused")
             /\ (UNCHANGED down \/ down' = down \cup {"modifier", "key", "blocked"})
    <3>1. events' \in 0..MaxEvents
      BY <1>15, <2>3
    <3>2. down' \subseteq {"modifier", "key", "blocked"} /\ (down' = {} \/ "blocked" \in down')
      BY <1>18, <2>3
    <3>. QED
      BY <2>0, <2>3, <3>1, <3>2, EndsKeeps
  <2>4. \/ Inserted(c) /\ UNCHANGED <<down, events>>
        \/ events < MaxEvents /\ events' = events + 1 /\ Ends(c, "refused")
           /\ (UNCHANGED down \/ down' = down \cup {"modifier", "key", "blocked"})
    BY <1>10 DEF SendInput
  <2>. QED
    BY <2>1, <2>2, <2>3, <2>4
<1>19. ASSUME NEW c \in Callers, NEW x \in CallRecords, call[c].at \in {"printing", "abandoned", "printed"},
              call' = [call EXCEPT ![c] = x], x.at \in {"printed", "refused", "abandoned", "ok", "dead"}, x.s = call[c].s,
              UNCHANGED <<wnd, cookies, surf, fg, lock, down, events>>
       PROVE  CallsInv'
  <2>1. CallRule(c, x, fg, lock)
    BY <1>0, <1>19 DEF CallRule
  <2>. QED
    BY <1>0, <1>19, <2>1, MovesKeeps
<1>11. ASSUME NEW c \in Callers, PrintWindow(c) PROVE CallsInv'
  <2>. DEFINE x == [call[c] EXCEPT !.at = IF @ = "printing" THEN "printed" ELSE "refused", !.took = wnd[call[c].s.h].id]
  <2>1. call' = [call EXCEPT ![c] = x]
    BY <1>0, <1>11 DEF PrintWindow, CallRecords
  <2>2. wnd[call[c].s.h].id \in Nat
    BY <1>0, <1>11 DEF PrintWindow, CallRule, CallsInv, MarkInv
  <2>3. x \in CallRecords /\ x.at \in {"printed", "refused"} /\ x.s = call[c].s
    <3>1. call[c] \in CallRecords
      BY <1>0
    <3>. DEFINE p == IF call[c].at = "printing" THEN "printed" ELSE "refused"
                n == wnd[call[c].s.h].id
    <3>2. p \in CallPlaces /\ p \in {"printed", "refused"}
      BY <1>16
    <3>3. n \in Nat /\ x = [call[c] EXCEPT !.at = p, !.took = n]
      BY <2>2, <3>1 DEF CallRecords
    <3>. HIDE DEF p, n, x
    <3>4. x \in CallRecords
      BY <3>1, <3>2, <3>3 DEF CallRecords
    <3>5. x.at = p /\ x.s = call[c].s
      BY <3>1, <3>3 DEF CallRecords
    <3>. QED
      BY <3>2, <3>4, <3>5
  <2>. HIDE DEF x
  <2>. QED
    BY <1>11, <1>19, <2>1, <2>3 DEF PrintWindow
<1>12. ASSUME NEW c \in Callers, ShotTimesOut(c) PROVE CallsInv'
  <2>. DEFINE x == [call[c] EXCEPT !.at = "abandoned"]
  <2>1. call' = [call EXCEPT ![c] = x]
    BY <1>0, <1>12 DEF ShotTimesOut
  <2>2. x \in CallRecords /\ x.at = "abandoned" /\ x.s = call[c].s
    <3>1. call[c] \in CallRecords /\ "abandoned" \in CallPlaces
      BY <1>0, <1>16
    <3>. QED
      BY <3>1, PlaceSet
  <2>. HIDE DEF x
  <2>. QED
    BY <1>12, <1>19, <2>1, <2>2 DEF ShotTimesOut
<1>13. ASSUME NEW c \in Callers, FinishShot(c) PROVE CallsInv'
  <2>1. PICK p \in {"ok", "dead"} : call' = [call EXCEPT ![c].at = p]
    BY <1>13 DEF FinishShot
  <2>. DEFINE x == [call[c] EXCEPT !.at = p]
  <2>2. call' = [call EXCEPT ![c] = x]
    BY <1>0, <2>1
  <2>3. x \in CallRecords /\ x.at = p /\ x.s = call[c].s
    <3>1. call[c] \in CallRecords /\ p \in CallPlaces
      BY <1>0, <1>16
    <3>. QED
      BY <3>1, PlaceSet
  <2>. HIDE DEF x
  <2>. QED
    BY <1>13, <1>19, <2>2, <2>3 DEF FinishShot
<1>14. CASE UNCHANGED wcVars
  BY <1>14 DEF wcVars, CallsInv, MarkInv
<1>. QED
  BY <1>1, <1>2, <1>3, <1>4, <1>5, <1>6, <1>7, <1>8, <1>9, <1>10, <1>11, <1>12, <1>13, <1>14 DEF WindowsCallsNext

\* What the calls promise follows.
LEMMA CallsPromise ==
  ASSUME CallsInv
  PROVE  WindowsCallsTypeOK /\ ResolvedIsIdentified /\ LostOnlyToOutsiders /\ NothingLeftDown
<1>1. WindowsCallsTypeOK /\ LostOnlyToOutsiders /\ NothingLeftDown
  BY DEF CallsInv, MarkInv, CallRule, WindowsCallsTypeOK, LostOnlyToOutsiders, NothingLeftDown, CallRecords, CallPlaces
<1>2. ASSUME NEW s, s.h \in Handles, s.cookie = s.id, Resolves(s) PROVE wnd[s.h].id = s.id
  BY <1>2 DEF CallsInv, MarkInv, Resolves
<1>3. ResolvedIsIdentified
  BY <1>2 DEF ResolvedIsIdentified, CallsInv, MarkInv, CallRule
<1>. QED
  BY <1>1, <1>3

-----------------------------------------------------------------------------
(* macOS: the largest child.                                               *)

\* f is what BestChild looks up: the best of the first i children, for i up to n.
Looks(kids, n, f) ==
  f = [i \in 0..n |-> IF i = 0 THEN 0
                      ELSE IF kids[i] = 0 \/ (f[i-1] # 0 /\ kids[i] <= kids[f[i-1]]) THEN f[i-1] ELSE i]

\* b is the first of the largest among the first n children, 0 when none of them can be read.
FirstLargest(kids, n, b) ==
  /\ b \in 0..n
  /\ b = 0 => \A i \in 1..n : kids[i] = 0
  /\ b # 0 => kids[b] > 0 /\ \A i \in 1..n : IF i < b THEN kids[i] < kids[b] ELSE kids[i] <= kids[b]

\* A set of numbers that is not empty has a least one: induction over the data is the search for a first failure.
LEMMA LeastNumber ==
  ASSUME NEW S \in SUBSET Nat, S # {}
  PROVE  \E m \in S : \A k \in S : m <= k
<1>1. PICK m \in S : \A k \in S : ~(<<k, m>> \in OpToRel(<, Nat))
  BY WFMin, NatLessThanWellFounded
<1>2. \A k \in S : ~(k < m)
  BY <1>1 DEF OpToRel
<1>. QED
  BY <1>2

\* The look-up exists for every sequence.
LEMMA LooksExists ==
  ASSUME NEW kids \in Seq(Nat), NEW n \in Nat
  PROVE  \E f : Looks(kids, n, f)
<1>. DEFINE S == {m \in Nat : ~\E f : Looks(kids, m, f)}
<1>1. SUFFICES ASSUME S # {} PROVE FALSE
  OBVIOUS
<1>2. PICK m \in S : \A k \in S : m <= k
  BY <1>1, LeastNumber
<1>3. CASE m = 0
  <2>. DEFINE g == [i \in 0..0 |-> 0]
  <2>1. g = [i \in 0..0 |-> IF i = 0 THEN 0
                            ELSE IF kids[i] = 0 \/ (g[i-1] # 0 /\ kids[i] <= kids[g[i-1]]) THEN g[i-1] ELSE i]
    OBVIOUS
  <2>2. Looks(kids, 0, g)
    BY <2>1 DEF Looks
  <2>. QED
    BY <1>3, <2>2
<1>4. CASE m # 0
  <2>1. m - 1 \in Nat /\ m - 1 \notin S
    BY <1>2, <1>4
  <2>2. PICK f : Looks(kids, m - 1, f)
    BY <2>1
  <2>. DEFINE last == IF kids[m] = 0 \/ (f[m-1] # 0 /\ kids[m] <= kids[f[m-1]]) THEN f[m-1] ELSE m
             g == [i \in 0..m |-> IF i = m THEN last ELSE f[i]]
  <2>3. \A i \in 0..(m-1) : g[i] = f[i]
    BY <2>1
  <2>4. g[m] = last /\ \A i \in 1..m : g[i-1] = f[i-1]
    BY <1>4, <2>1, <2>3
  <2>5. \A i \in 0..(m-1) : f[i] = IF i = 0 THEN 0
                      ELSE IF kids[i] = 0 \/ (f[i-1] # 0 /\ kids[i] <= kids[f[i-1]]) THEN f[i-1] ELSE i
    BY <2>2 DEF Looks
  <2>6. \A i \in 0..m : g[i] = IF i = 0 THEN 0
                      ELSE IF kids[i] = 0 \/ (g[i-1] # 0 /\ kids[i] <= kids[g[i-1]]) THEN g[i-1] ELSE i
    <3>. HIDE DEF g
    <3>. TAKE i \in 0..m
    <3>1. CASE i = m
      BY <1>4, <2>1, <2>4, <3>1
    <3>2. CASE i = 0
      BY <1>4, <2>1, <2>3, <2>5, <3>2
    <3>3. CASE i # m /\ i # 0
      <4>1. i \in 0..(m-1) /\ i \in 1..m
        BY <2>1, <3>3
      <4>. QED
        BY <2>3, <2>4, <2>5, <3>3, <4>1
    <3>. QED
      BY <3>1, <3>2, <3>3
  <2>. DEFINE h == [i \in 0..m |-> IF i = 0 THEN 0
                      ELSE IF kids[i] = 0 \/ (g[i-1] # 0 /\ kids[i] <= kids[g[i-1]]) THEN g[i-1] ELSE i]
  <2>7. g = h
    <3>1. \A i \in 0..m : g[i] = h[i]
      BY <2>6
    <3>2. g = [i \in 0..m |-> g[i]] /\ h = [i \in 0..m |-> h[i]]
      OBVIOUS
    <3>. HIDE DEF g, h
    <3>. QED
      BY <3>1, <3>2
  <2>8. Looks(kids, m, g)
    BY <2>7 DEF Looks
  <2>. QED
    BY <2>8
<1>. QED
  BY <1>3, <1>4

\* Every entry of the look-up is the first of the largest so far.
LEMMA LooksRight ==
  ASSUME NEW kids \in Seq(Nat), NEW f, Looks(kids, Len(kids), f)
  PROVE  FirstLargest(kids, Len(kids), f[Len(kids)])
<1>. DEFINE S == {m \in 0..Len(kids) : ~FirstLargest(kids, m, f[m])}
<1>0. Len(kids) \in Nat /\ \A i \in 1..Len(kids) : kids[i] \in Nat
  OBVIOUS
<1>1. \A i \in 0..Len(kids) : f[i] = IF i = 0 THEN 0
           ELSE IF kids[i] = 0 \/ (f[i-1] # 0 /\ kids[i] <= kids[f[i-1]]) THEN f[i-1] ELSE i
  BY DEF Looks
<1>2. SUFFICES ASSUME S # {} PROVE FALSE
  BY <1>0
<1>3. PICK m \in S : \A k \in S : m <= k
  <2>1. S \in SUBSET Nat
    BY <1>0
  <2>. HIDE DEF S
  <2>. QED
    BY <1>2, <2>1, LeastNumber
<1>4. CASE m = 0
  BY <1>0, <1>1, <1>3, <1>4 DEF FirstLargest
<1>5. CASE m # 0
  <2>1. m - 1 \in 0..Len(kids) /\ m - 1 \notin S /\ m \in 1..Len(kids)
    BY <1>0, <1>3, <1>5
  <2>. DEFINE b == f[m-1]
  <2>2. FirstLargest(kids, m - 1, b)
    BY <2>1
  <2>3. f[m] = IF kids[m] = 0 \/ (b # 0 /\ kids[m] <= kids[b]) THEN b ELSE m
    BY <1>1, <2>1
  <2>. HIDE DEF b
  <2>4. b \in 0..(m-1) /\ kids[m] \in Nat /\ (b # 0 => kids[b] \in Nat) /\ \A i \in 1..m : i = m \/ i \in 1..(m-1)
    BY <1>0, <2>1, <2>2 DEF FirstLargest
  <2>5. FirstLargest(kids, m, f[m])
    <3>1. CASE b = 0 /\ kids[m] = 0
      BY <2>1, <2>2, <2>3, <2>4, <3>1 DEF FirstLargest
    <3>2. CASE b = 0 /\ kids[m] # 0
      BY <2>1, <2>2, <2>3, <2>4, <3>2 DEF FirstLargest
    <3>3. CASE b # 0 /\ kids[m] <= kids[b]
      BY <2>1, <2>2, <2>3, <2>4, <3>3 DEF FirstLargest
    <3>4. CASE b # 0 /\ ~(kids[m] <= kids[b])
      <4>1. f[m] = m /\ kids[m] > kids[b] /\ kids[b] > 0
        BY <2>2, <2>3, <2>4, <3>4 DEF FirstLargest
      <4>2. \A i \in 1..(m-1) : kids[i] \in Nat /\ kids[i] <= kids[b]
        <5>1. TAKE i \in 1..(m-1)
        <5>2. kids[i] \in Nat /\ kids[b] \in Nat
          BY <1>0, <2>1, <2>4, <3>4
        <5>3. IF i < b THEN kids[i] < kids[b] ELSE kids[i] <= kids[b]
          BY <2>2, <3>4 DEF FirstLargest
        <5>. QED
          BY <5>2, <5>3
      <4>3. \A i \in 1..(m-1) : kids[i] < kids[m]
        BY <2>4, <3>4, <4>1, <4>2
      <4>4. m \in 0..m /\ m # 0 /\ kids[m] > 0
        BY <2>1, <2>4, <3>4, <4>1
      <4>5. \A i \in 1..m : IF i < m THEN kids[i] < kids[m] ELSE kids[i] <= kids[m]
        BY <2>1, <2>4, <4>3
      <4>. QED
        BY <4>1, <4>4, <4>5 DEF FirstLargest
    <3>. QED
      BY <2>4, <3>1, <3>2, <3>3, <3>4
  <2>. QED
    BY <1>3, <2>5
<1>. QED
  BY <1>4, <1>5

\* The child DescendChildren takes is the first of the largest.
LEMMA BestIsLargest ==
  ASSUME NEW kids \in Seq(Nat)
  PROVE  FirstLargest(kids, Len(kids), BestChild(kids))
<1>. DEFINE g == CHOOSE f : Looks(kids, Len(kids), f)
<1>1. Looks(kids, Len(kids), g)
  <2>1. Len(kids) \in Nat
    OBVIOUS
  <2>. QED
    BY <2>1, LooksExists
<1>2. BestChild(kids) = g[Len(kids)]
  BY DEF BestChild, Looks
<1>. HIDE DEF g
<1>. QED
  BY <1>1, <1>2, LooksRight

-----------------------------------------------------------------------------
(* macOS: one call on a window.                                            *)

MacPlaces == {"idle", "over", "front", "activate", "open", "list", "find", "act", "press", "value", "contents", "children",
              "child", "drop", "focused", "post", "poll"}
MacAnswers == {"none", "dead", "permission", "focused", "fallback", "pressed", "ok", "refused", "unavailable", "close_failed"}
MacRefs == {"app", "windows", "button", "value", "array"}
MaybeWin == MacWins \cup {NoMacWin}
Desks == [wins : SUBSET MacWins, front : Apps, key : [Apps -> MaybeWin]]
MacCallRecords ==
  [pc : MacPlaces, op : MacOps, win : MaybeWin, exact : BOOLEAN, stage : {"ax", "raise"}, refs : SUBSET MacRefs,
   borrowed : MaybeWin, answer : MacAnswers, polls : 0..MaxPolls, count : Nat, kids : Seq(Nat), picked : Nat,
   descent : {"none", "contents", "largest_child"}]
MacPasts == [touched : SUBSET MacWins, typed : SUBSET MacWins, user : Nat]

\* Where the call holds which references, and a window of the array.
RefsRule(x) ==
  /\ x.pc \in {"idle", "over", "front", "activate", "open", "focused", "post", "poll"} => x.refs = {} /\ x.borrowed = NoMacWin
  /\ x.pc = "list" => x.refs = {"app"} /\ x.borrowed = NoMacWin
  /\ x.pc = "find" => x.refs = {"app", "windows"} /\ x.borrowed = NoMacWin
  /\ x.pc \in {"act", "contents", "children"} => x.refs = {"app", "windows"}
  /\ x.pc = "press" => x.refs = {"app", "windows", "button"}
  /\ x.pc = "value" => x.refs = {"app", "windows", "value"}
  /\ x.pc = "child" => x.refs = {"app", "windows", "array"}
  /\ x.pc = "drop" => x.refs \subseteq {"app", "windows"}
  /\ x.borrowed # NoMacWin => "windows" \in x.refs

\* The window borrowed by a call on a window id is the one of that id, and so is what it touched.
TouchRule(x, touched) ==
  /\ x.pc # "idle" => x.win \in MacWins
  /\ x.pc \in {"act", "press"} => x.borrowed \in MacWins
  /\ x.exact => touched \subseteq {x.win}
  /\ x.exact /\ x.pc \in {"act", "press"} => x.borrowed = x.win

\* A close says ok only after the window went, and windows do not come back.
CloseRule(x, there) ==
  /\ x.pc = "value" => x.op = "bounds"
  /\ x.pc \in {"contents", "children", "child"} => x.op = "content"
  /\ x.op = "close" /\ x.answer = "ok" /\ x.exact => x.win \notin there

\* The child read is the first of the largest, when it was looked for by size.
ChildRule(x) == x.descent = "largest_child" => FirstLargest(x.kids, Len(x.kids), x.picked) /\ x.picked # 0

MacRule(x, d, p) == RefsRule(x) /\ TouchRule(x, p.touched) /\ CloseRule(x, d.wins) /\ ChildRule(x)

MacInv == desk \in Desks /\ mac \in MacCallRecords /\ macPast \in MacPasts /\ MacRule(mac, desk, macPast)

\* An app whose key window went gets another one; the windows stay.
LEMMA RekeyKeeps ==
  ASSUME NEW d \in Desks
  PROVE  Rekey(d) \in Desks /\ Rekey(d).wins = d.wins
<1>. DEFINE k == [a \in Apps |-> LET ws == {w \in d.wins : AppOf[w] = a} IN
                   IF d.key[a] \in ws THEN d.key[a] ELSE IF ws = {} THEN NoMacWin ELSE CHOOSE w \in ws : TRUE]
<1>1. \A a \in Apps : k[a] \in MaybeWin
  BY DEF Desks, MaybeWin
<1>2. k \in [Apps -> MaybeWin]
  BY <1>1
<1>3. Rekey(d) = [d EXCEPT !.key = k]
  BY DEF Rekey
<1>. HIDE DEF k
<1>. QED
  BY <1>2, <1>3 DEF Desks

LEMMA ClosingKeeps ==
  ASSUME desk \in Desks, NEW w
  PROVE  WindowClosed(w) \in Desks /\ WindowClosed(w).wins = desk.wins \ {w}
<1>. DEFINE d == [desk EXCEPT !.wins = @ \ {w}]
<1>1. d \in Desks /\ d.wins = desk.wins \ {w}
  BY DEF Desks
<1>2. WindowClosed(w) = Rekey(d)
  BY DEF WindowClosed
<1>. HIDE DEF d
<1>. QED
  BY <1>1, <1>2, RekeyKeeps

\* The user and the apps only take windows away.
LEMMA WindowsGo ==
  ASSUME NEW x, NEW d, NEW e, NEW p, MacRule(x, d, p), e.wins \subseteq d.wins
  PROVE  MacRule(x, e, p)
BY DEF MacRule, CloseRule

\* No call is under way at the start.
LEMMA MacBegins ==
  ASSUME MacInit
  PROVE  MacInv
<1>1. desk \in Desks
  <2>. PICK a \in Apps : desk = Rekey([wins |-> MacWins, front |-> a, key |-> [b \in Apps |-> NoMacWin]])
    BY DEF MacInit
  <2>. DEFINE d == [wins |-> MacWins, front |-> a, key |-> [b \in Apps |-> NoMacWin]]
  <2>1. [b \in Apps |-> NoMacWin] \in [Apps -> MaybeWin]
    BY DEF MaybeWin
  <2>2. d \in Desks
    BY <2>1 DEF Desks
  <2>. HIDE DEF d
  <2>. QED
    BY <2>2, RekeyKeeps DEF d
<1>2. mac = NoMacCall /\ NoMacCall \in MacCallRecords
  BY MacAssumption DEF MacInit, NoMacCall, MacCallRecords, MacPlaces, MacOps, MaybeWin, MacRefs, MacAnswers
<1>3. macPast \in MacPasts
  BY DEF MacInit, MacPasts
<1>4. MacRule(mac, desk, macPast)
  BY <1>2 DEF MacInit, NoMacCall, MacRule, RefsRule, TouchRule, CloseRule, ChildRule
<1>. QED
  BY <1>1, <1>2, <1>3, <1>4 DEF MacInv

\* A step of the call from and to places where the child found by size stays the same.
LEMMA CallMoves ==
  ASSUME MacInv, NEW x \in MacCallRecords, mac' = x, desk' \in Desks, macPast' \in MacPasts,
         x.kids = mac.kids, x.picked = mac.picked, x.descent = mac.descent,
         RefsRule(x), TouchRule(x, macPast'.touched), CloseRule(x, desk'.wins)
  PROVE  MacInv'
BY DEF MacInv, MacRule, ChildRule

\* The user closes a window or switches to another.
LEMMA UserKeeps ==
  ASSUME MacInv, UserActs
  PROVE  MacInv'
<1>1. desk \in Desks /\ macPast \in MacPasts /\ MacRule(mac, desk, macPast) /\ mac \in MacCallRecords
  BY DEF MacInv
<1>2. macPast' \in MacPasts /\ macPast'.touched = macPast.touched /\ mac' = mac
  <2>1. macPast' = [macPast EXCEPT !.user = @ + 1] /\ mac' = mac
    BY DEF UserActs
  <2>2. macPast' \in MacPasts
    BY <1>1, <2>1 DEF MacPasts
  <2>3. macPast'.touched = macPast.touched
    BY <1>1, <2>1 DEF MacPasts
  <2>. QED
    BY <2>1, <2>2, <2>3
<1>3. desk' \in Desks /\ desk'.wins \subseteq desk.wins
  <2>1. CASE \E w \in desk.wins : desk' = WindowClosed(w)
    BY <1>1, <2>1, ClosingKeeps
  <2>2. CASE \E w \in desk.wins : desk' = [desk EXCEPT !.front = AppOf[w], !.key[AppOf[w]] = w]
    <3>1. PICK w \in desk.wins : desk' = [desk EXCEPT !.front = AppOf[w], !.key[AppOf[w]] = w]
      BY <2>2
    <3>2. w \in MaybeWin /\ AppOf[w] \in Apps
      BY <1>1, MacAssumption DEF Desks, MaybeWin
    <3>. DEFINE k == [desk.key EXCEPT ![AppOf[w]] = w]
    <3>3. k \in [Apps -> MaybeWin]
      BY <1>1, <3>2 DEF Desks
    <3>4. desk' = [desk EXCEPT !.front = AppOf[w], !.key = k]
      BY <1>1, <3>1 DEF Desks
    <3>. HIDE DEF k
    <3>5. desk' \in Desks
      BY <1>1, <3>2, <3>3, <3>4 DEF Desks
    <3>6. desk'.wins = desk.wins
      BY <1>1, <3>4 DEF Desks
    <3>. QED
      BY <3>5, <3>6
  <2>. QED
    BY <2>1, <2>2 DEF UserActs
<1>. QED
  BY <1>1, <1>2, <1>3, WindowsGo DEF MacInv, MacRule

\* A call begins: what the last one found is forgotten.
LEMMA BeginKeeps ==
  ASSUME MacInv, NEW op \in MacOps, NEW w \in MacWins, NEW exact \in BOOLEAN, BeginMacCall(op, w, exact)
  PROVE  MacInv'
<1>1. desk \in Desks /\ macPast \in MacPasts /\ mac \in MacCallRecords
  BY DEF MacInv
<1>2. macPast' \in MacPasts /\ macPast'.touched = {} /\ desk' = desk
  BY <1>1 DEF BeginMacCall, MacPasts
<1>. DEFINE pc == CASE op \in {"focus", "key"} -> "front" [] op = "text" -> "post" [] OTHER -> "open"
           n == mac.count + 1
<1>3. pc \in {"front", "post", "open"} /\ n \in Nat
  BY <1>1 DEF MacCallRecords
<1>4. mac' = [pc |-> pc, op |-> op, win |-> w, exact |-> exact, stage |-> "ax", refs |-> {},
              borrowed |-> NoMacWin, answer |-> "none", polls |-> 0, count |-> n,
              kids |-> <<>>, picked |-> 0, descent |-> "none"]
  BY DEF BeginMacCall, NoMacCall
<1>. HIDE DEF pc, n
<1>5. mac' \in MacCallRecords
  BY <1>3, <1>4, MacAssumption DEF MacCallRecords, MacPlaces, MaybeWin, MacRefs, MacAnswers
<1>6. MacRule(mac', desk', macPast')
  BY <1>2, <1>3, <1>4 DEF MacRule, RefsRule, TouchRule, CloseRule, ChildRule
<1>. QED
  BY <1>1, <1>2, <1>5, <1>6 DEF MacInv

\* The part of a call that RefsRule looks at.
At(p, r, b) == [pc |-> p, refs |-> r, borrowed |-> b]

\* A call goes to another place with another answer and other references; it may have touched its window, and windows may
\* have gone.
LEMMA CallGoes ==
  ASSUME MacInv, NEW p \in MacPlaces, NEW a \in MacAnswers, NEW r \in SUBSET MacRefs,
         mac' = [mac EXCEPT !.pc = p, !.answer = a, !.refs = r], mac.pc # "idle", p # "act",
         desk' \in Desks, desk'.wins \subseteq desk.wins, macPast' \in MacPasts,
         \/ macPast'.touched = macPast.touched
         \/ macPast'.touched = macPast.touched \cup {mac.borrowed} /\ mac.pc \in {"act", "press"},
         RefsRule(At(p, r, mac.borrowed)), p = "press" => mac.pc = "act",
         p = "value" => mac.op = "bounds", p \in {"contents", "children", "child"} => mac.op = "content",
         a = "ok" => mac.answer = "ok" \/ mac.op # "close" \/ (mac.exact => mac.win \notin desk'.wins)
  PROVE  MacInv'
<1>. DEFINE x == [mac EXCEPT !.pc = p, !.answer = a, !.refs = r]
<1>1. mac \in MacCallRecords /\ MacRule(mac, desk, macPast)
  BY DEF MacInv
<1>2. x \in MacCallRecords
  BY <1>1 DEF MacCallRecords
<1>3. x.pc = p /\ x.answer = a /\ x.refs = r /\ x.borrowed = mac.borrowed
  BY <1>1 DEF MacCallRecords
<1>4. x.win = mac.win /\ x.exact = mac.exact /\ x.op = mac.op
  BY <1>1 DEF MacCallRecords
<1>5. x.kids = mac.kids /\ x.picked = mac.picked /\ x.descent = mac.descent
  BY <1>1 DEF MacCallRecords
<1>. HIDE DEF x
<1>6. RefsRule(x)
  BY <1>3 DEF RefsRule, At
<1>7. TouchRule(x, macPast'.touched)
  BY <1>1, <1>3, <1>4 DEF MacRule, TouchRule
<1>8. CloseRule(x, desk'.wins)
  BY <1>1, <1>3, <1>4 DEF MacRule, CloseRule
<1>. QED
  BY <1>2, <1>5, <1>6, <1>7, <1>8, CallMoves DEF x

\* What is known before a step, and that the names of places, answers and references are such.
LEMMA BeforeStep ==
  ASSUME MacInv
  PROVE  /\ mac \in MacCallRecords /\ desk \in Desks /\ macPast \in MacPasts /\ MacRule(mac, desk, macPast)
         /\ mac.answer \in MacAnswers /\ mac.refs \in SUBSET MacRefs /\ mac.refs \cup {"app"} \in SUBSET MacRefs
         /\ mac.refs \cup {"windows"} \in SUBSET MacRefs /\ mac.refs \cup {"button"} \in SUBSET MacRefs
         /\ mac.refs \cup {"value"} \in SUBSET MacRefs /\ mac.refs \cup {"array"} \in SUBSET MacRefs
         /\ \A r \in MacRefs : mac.refs \ {r} \in SUBSET MacRefs
BY DEF MacInv, MacCallRecords, MacRefs

LEMMA MacNames ==
  /\ {"idle", "over", "front", "activate", "open", "list", "find", "act", "press", "value", "contents", "children"} \subseteq MacPlaces
  /\ {"child", "drop", "focused", "post", "poll"} \subseteq MacPlaces
  /\ {"dead", "permission", "focused", "fallback", "pressed", "ok", "refused", "unavailable", "close_failed"} \subseteq MacAnswers
  /\ {"app", "windows", "button", "value", "array"} \subseteq MacRefs
BY Zenon DEF MacPlaces, MacAnswers, MacRefs

\* A field set to what it was.
LEMMA SamePlace ==
  ASSUME MacInv
  PROVE  /\ \A p : [mac EXCEPT !.pc = p] = [mac EXCEPT !.pc = p, !.answer = mac.answer, !.refs = mac.refs]
         /\ \A p, a : [mac EXCEPT !.pc = p, !.answer = a] = [mac EXCEPT !.pc = p, !.answer = a, !.refs = mac.refs]
         /\ \A p, r : [mac EXCEPT !.pc = p, !.refs = r] = [mac EXCEPT !.pc = p, !.answer = mac.answer, !.refs = r]
BY Zenon DEF MacInv, MacCallRecords


Goes(p, a, r) == mac' = [mac EXCEPT !.pc = p, !.answer = a, !.refs = r]

\* The steps that only move the call: from where, and what for, to where, with which answer and references.
MovesOn(p, a, r) ==
  \/ mac.pc = "front" /\ p \in {"focused", "activate"} /\ a = mac.answer /\ r = mac.refs
  \/ mac.pc = "activate" /\ p = "over" /\ a = "dead" /\ r = mac.refs
  \/ mac.pc = "open" /\ p = "list" /\ a = mac.answer /\ r = mac.refs \cup {"app"}
  \/ mac.pc = "list" /\ p = "find" /\ a = mac.answer /\ r = mac.refs \cup {"windows"}
  \/ mac.pc = "list" /\ p = "drop" /\ a = "permission" /\ r = mac.refs
  \/ mac.pc = "find" /\ p = "drop" /\ a = "dead" /\ r = mac.refs
  \/ mac.pc = "act" /\ p = "press" /\ a = mac.answer /\ r = mac.refs \cup {"button"}
  \/ mac.pc = "act" /\ p = "drop" /\ a \in {"fallback", "refused"} /\ r = mac.refs
  \/ mac.pc = "act" /\ mac.op = "bounds" /\ p = "value" /\ a = mac.answer /\ r = mac.refs \cup {"value"}
  \/ mac.pc = "act" /\ mac.op = "bounds" /\ p = "drop" /\ a = "ok" /\ r = mac.refs
  \/ mac.pc = "value" /\ p = "drop" /\ a = "ok" /\ r = mac.refs \ {"value"}
  \/ mac.pc = "act" /\ mac.op = "content" /\ p = "contents" /\ a = mac.answer /\ r = mac.refs
  \/ mac.pc = "contents" /\ p = "children" /\ a = mac.answer /\ r = mac.refs
  \/ mac.pc = "children" /\ p = "drop" /\ a = "unavailable" /\ r = mac.refs
  \/ mac.pc = "child" /\ p = "drop" /\ a \in {"ok", "unavailable"} /\ r = mac.refs \ {"array"}
  \/ mac.pc = "focused" /\ mac.op = "focus" /\ p = "over" /\ a = "ok" /\ r = mac.refs
  \/ mac.pc = "focused" /\ p = "post" /\ a = mac.answer /\ r = mac.refs

LEMMA MovesOnKeeps ==
  ASSUME MacInv, UNCHANGED <<desk, macPast>>, NEW p, NEW a, NEW r, Goes(p, a, r), MovesOn(p, a, r)
  PROVE  MacInv'
<1>1. p \in MacPlaces
  BY MacNames DEF MovesOn
<1>2. a \in MacAnswers
  BY BeforeStep, MacNames DEF MovesOn
<1>3. r \in SUBSET MacRefs
  BY BeforeStep, MacNames DEF MovesOn
<1>4. RefsRule(At(p, r, mac.borrowed))
  BY BeforeStep DEF MovesOn, MacRule, RefsRule, At
<1>5. mac.pc # "idle" /\ p # "act" /\ (p = "press" => mac.pc = "act") /\ (p = "value" => mac.op = "bounds")
  BY DEF MovesOn
<1>6. p \in {"contents", "children", "child"} => mac.op = "content"
  BY BeforeStep DEF MovesOn, MacRule, CloseRule
<1>7. a = "ok" => mac.answer = "ok" \/ mac.op # "close"
  BY BeforeStep DEF MovesOn, MacRule, CloseRule
<1>8. desk' \in Desks /\ desk'.wins \subseteq desk.wins /\ macPast' \in MacPasts /\ macPast'.touched = macPast.touched
  BY BeforeStep
<1>. QED
  BY <1>1, <1>2, <1>3, <1>4, <1>5, <1>6, <1>7, <1>8, CallGoes DEF Goes

\* These are the steps.
LEMMA QuietKeeps ==
  ASSUME MacInv,
         \/ CheckFront \/ OpenApp \/ CopyWindows \/ CopyButton \/ ReadBounds \/ ReleaseBounds \/ ReadOuter \/ ReadChild
         \/ FocusReturns
  PROVE  MacInv'
<1>. SUFFICES UNCHANGED <<desk, macPast>> /\ \E p, a, r : Goes(p, a, r) /\ MovesOn(p, a, r)
  BY MovesOnKeeps
<1>0. UNCHANGED <<desk, macPast>>
  BY DEF CheckFront, OpenApp, CopyWindows, CopyButton, ReadBounds, ReleaseBounds, ReadOuter, ReadChild, FocusReturns
<1>. SUFFICES \E p, a, r : Goes(p, a, r) /\ MovesOn(p, a, r)
  BY <1>0
<1>1. CASE CheckFront
  BY ZenonT(40), <1>1, SamePlace DEF CheckFront, Goes, MovesOn
<1>2. CASE OpenApp
  <2>1. Goes("list", mac.answer, mac.refs \cup {"app"})
    BY Zenon, <1>2, SamePlace DEF OpenApp, Goes
  <2>2. MovesOn("list", mac.answer, mac.refs \cup {"app"})
    BY <1>2 DEF OpenApp, MovesOn
  <2>. QED
    BY Zenon, <2>1, <2>2
<1>3. CASE CopyWindows
  <2>1. CASE mac.pc = "list" /\ mac' = [mac EXCEPT !.pc = "find", !.refs = @ \cup {"windows"}]
    <3>1. Goes("find", mac.answer, mac.refs \cup {"windows"})
      BY Zenon, <2>1, SamePlace DEF Goes
    <3>2. MovesOn("find", mac.answer, mac.refs \cup {"windows"})
      BY <2>1 DEF MovesOn
    <3>. QED
      BY Zenon, <3>1, <3>2
  <2>2. CASE mac.pc = "list" /\ mac' = [mac EXCEPT !.pc = "drop", !.answer = "permission"]
    BY ZenonT(40), <2>2, SamePlace DEF Goes, MovesOn
  <2>. QED
    BY <1>3, <2>1, <2>2 DEF CopyWindows
<1>4. CASE CopyButton
  <2>1. CASE mac.pc = "act" /\ mac' = [mac EXCEPT !.pc = "press", !.refs = @ \cup {"button"}]
    <3>1. Goes("press", mac.answer, mac.refs \cup {"button"})
      BY Zenon, <2>1, SamePlace DEF Goes
    <3>2. MovesOn("press", mac.answer, mac.refs \cup {"button"})
      BY <2>1 DEF MovesOn
    <3>. QED
      BY Zenon, <3>1, <3>2
  <2>2. CASE mac.pc = "act" /\ mac' = [mac EXCEPT !.pc = "drop", !.answer = "fallback"]
    BY ZenonT(40), <2>2, SamePlace DEF Goes, MovesOn
  <2>. QED
    BY Zenon, <1>4, <2>1, <2>2 DEF CopyButton
<1>5. CASE ReadBounds
  <2>1. CASE mac.pc = "act" /\ mac.op = "bounds" /\ mac' = [mac EXCEPT !.pc = "value", !.refs = @ \cup {"value"}]
    <3>1. Goes("value", mac.answer, mac.refs \cup {"value"})
      BY Zenon, <2>1, SamePlace DEF Goes
    <3>2. MovesOn("value", mac.answer, mac.refs \cup {"value"})
      BY <2>1 DEF MovesOn
    <3>. QED
      BY Zenon, <3>1, <3>2
  <2>2. CASE mac.pc = "act" /\ mac.op = "bounds" /\ mac' = [mac EXCEPT !.pc = "drop", !.answer = "ok"]
    BY ZenonT(40), <2>2, SamePlace DEF Goes, MovesOn
  <2>. QED
    BY Zenon, <1>5, <2>1, <2>2 DEF ReadBounds
<1>6. CASE ReleaseBounds
  BY <1>6 DEF ReleaseBounds, Goes, MovesOn
<1>7. CASE ReadOuter
  <2>1. CASE mac.pc = "act" /\ mac.op = "content" /\ mac' = [mac EXCEPT !.pc = "contents"]
    BY <2>1, SamePlace DEF Goes, MovesOn
  <2>2. CASE mac.pc = "act" /\ mac' = [mac EXCEPT !.pc = "drop", !.answer = "refused"]
    BY ZenonT(40), <2>2, SamePlace DEF Goes, MovesOn
  <2>. QED
    BY <1>7, <2>1, <2>2 DEF ReadOuter
<1>8. CASE ReadChild
  BY <1>8 DEF ReadChild, Goes, MovesOn
<1>9. CASE FocusReturns
  <2>1. CASE mac.op = "focus"
    BY ZenonT(40), <1>9, <2>1, SamePlace DEF FocusReturns, MacAnswer, Goes, MovesOn
  <2>2. CASE mac.op # "focus"
    BY <1>9, <2>2, SamePlace DEF FocusReturns, Goes, MovesOn
  <2>. QED
    BY <2>1, <2>2
<1>. QED
  BY <1>1, <1>2, <1>3, <1>4, <1>5, <1>6, <1>7, <1>8, <1>9

\* The app comes to the front, or has gone.
LEMMA ActivateKeeps ==
  ASSUME MacInv, ActivateApp
  PROVE  MacInv'
<1>0. mac.pc = "activate" /\ macPast' = macPast
  BY DEF ActivateApp
<1>1. CASE desk' = [desk EXCEPT !.front = AppOf[mac.win]] /\ mac' = [mac EXCEPT !.pc = "open", !.stage = "raise"]
  <2>. DEFINE x == [mac EXCEPT !.pc = "open", !.stage = "raise"]
  <2>1. mac \in MacCallRecords /\ MacRule(mac, desk, macPast) /\ AppOf[mac.win] \in Apps
    BY <1>0, BeforeStep, MacAssumption DEF MacRule, TouchRule
  <2>2. desk' \in Desks
    BY <1>1, <2>1, BeforeStep DEF Desks
  <2>3. desk'.wins = desk.wins
    BY <1>1, <2>1, BeforeStep DEF Desks
  <2>4. x \in MacCallRecords
    BY <2>1, MacNames DEF MacCallRecords
  <2>5. x.pc = "open" /\ x.refs = mac.refs /\ x.borrowed = mac.borrowed /\ x.answer = mac.answer
    BY <2>1 DEF MacCallRecords
  <2>6. x.win = mac.win /\ x.exact = mac.exact /\ x.op = mac.op
    BY <2>1 DEF MacCallRecords
  <2>7. x.kids = mac.kids /\ x.picked = mac.picked /\ x.descent = mac.descent
    BY <2>1 DEF MacCallRecords
  <2>. HIDE DEF x
  <2>8. RefsRule(x) /\ TouchRule(x, macPast.touched) /\ CloseRule(x, desk.wins)
    BY <1>0, <2>1, <2>5, <2>6 DEF MacRule, RefsRule, TouchRule, CloseRule
  <2>. QED
    BY <1>0, <1>1, <2>2, <2>3, <2>4, <2>7, <2>8, BeforeStep, CallMoves DEF x
<1>2. CASE mac' = MacAnswer("dead") /\ UNCHANGED desk
  <2>1. Goes("over", "dead", mac.refs) /\ MovesOn("over", "dead", mac.refs)
    BY Zenon, <1>0, <1>2, SamePlace DEF MacAnswer, Goes, MovesOn
  <2>. QED
    BY Zenon, <1>0, <1>2, <2>1, MovesOnKeeps
<1>. QED
  BY <1>1, <1>2 DEF ActivateApp

\* The window is found in the array, by its id if the call has one.
LEMMA FindKeeps ==
  ASSUME MacInv, FindWindow
  PROVE  MacInv'
<1>0. mac.pc = "find" /\ UNCHANGED <<desk, macPast>>
  BY DEF FindWindow
<1>1. ASSUME NEW w \in MacWins, mac.exact => w = mac.win, mac' = [mac EXCEPT !.pc = "act", !.borrowed = w] PROVE MacInv'
  <2>. DEFINE x == [mac EXCEPT !.pc = "act", !.borrowed = w]
  <2>1. mac \in MacCallRecords /\ MacRule(mac, desk, macPast)
    BY BeforeStep
  <2>2. x \in MacCallRecords
    BY <2>1, MacNames DEF MacCallRecords, MaybeWin
  <2>3. x.pc = "act" /\ x.refs = mac.refs /\ x.borrowed = w /\ x.answer = mac.answer
    BY <2>1 DEF MacCallRecords
  <2>4. x.win = mac.win /\ x.exact = mac.exact /\ x.op = mac.op
    BY <2>1 DEF MacCallRecords
  <2>5. x.kids = mac.kids /\ x.picked = mac.picked /\ x.descent = mac.descent
    BY <2>1 DEF MacCallRecords
  <2>. HIDE DEF x
  <2>6. RefsRule(x) /\ TouchRule(x, macPast.touched) /\ CloseRule(x, desk.wins)
    BY <1>0, <1>1, <2>1, <2>3, <2>4 DEF MacRule, RefsRule, TouchRule, CloseRule
  <2>. QED
    BY <1>0, <1>1, <2>2, <2>5, <2>6, BeforeStep, CallMoves DEF x
<1>2. CASE \E w \in (IF mac.exact THEN WinsOf(AppOf[mac.win]) \cap {mac.win} ELSE WinsOf(AppOf[mac.win])) :
             mac' = [mac EXCEPT !.pc = "act", !.borrowed = w]
  BY <1>1, <1>2, BeforeStep DEF WinsOf, Desks
<1>3. CASE mac' = [mac EXCEPT !.pc = "drop", !.answer = "dead"]
  <2>1. Goes("drop", "dead", mac.refs) /\ MovesOn("drop", "dead", mac.refs)
    BY ZenonT(40), <1>0, <1>3, SamePlace DEF Goes, MovesOn
  <2>. QED
    BY Zenon, <1>0, <2>1, MovesOnKeeps
<1>. QED
  BY <1>2, <1>3 DEF FindWindow

\* The window is raised, its button pressed, its rectangle written.
LEMMA TouchingKeeps ==
  ASSUME MacInv, RaiseWindow \/ PressButton \/ WriteRect
  PROVE  MacInv'
<1>1. /\ mac.pc \in {"act", "press"}
      /\ macPast' = [macPast EXCEPT !.touched = @ \cup {mac.borrowed}]
      /\ \E a \in {"focused", "pressed", "ok", "refused"}, r \in {mac.refs, mac.refs \ {"button"}} :
           /\ Goes("drop", a, r) /\ (a = "ok" => mac.op = "place") /\ (mac.pc = "press" => r = mac.refs \ {"button"})
  <2>1. CASE RaiseWindow
    BY ZenonT(40), <2>1, SamePlace DEF RaiseWindow, Goes
  <2>2. CASE PressButton
    BY Zenon, <2>2 DEF PressButton, Goes
  <2>3. CASE WriteRect
    BY ZenonT(40), <2>3, SamePlace DEF WriteRect, Goes
  <2>. QED
    BY Zenon, <2>1, <2>2, <2>3
<1>2. mac.borrowed \in MacWins
  BY <1>1, BeforeStep DEF MacRule, TouchRule
<1>3. macPast' \in MacPasts
  BY <1>1, <1>2, BeforeStep DEF MacPasts
<1>4. macPast'.touched = macPast.touched \cup {mac.borrowed}
  BY <1>1, BeforeStep DEF MacPasts
<1>5. desk' \in Desks /\ desk'.wins \subseteq desk.wins
  <2>0. desk \in Desks
    BY BeforeStep
  <2>1. CASE desk' = desk
    BY <2>0, <2>1
  <2>2. CASE desk' = WindowClosed(mac.borrowed)
    BY <2>0, <2>2, ClosingKeeps
  <2>3. CASE desk' = [desk EXCEPT !.key[AppOf[mac.borrowed]] = mac.borrowed]
    <3>. DEFINE k == [desk.key EXCEPT ![AppOf[mac.borrowed]] = mac.borrowed]
    <3>1. k \in [Apps -> MaybeWin]
      BY <1>2, <2>0, MacAssumption DEF Desks, MaybeWin
    <3>2. desk' = [desk EXCEPT !.key = k]
      BY <2>0, <2>3 DEF Desks
    <3>. HIDE DEF k
    <3>3. desk' \in Desks
      BY <2>0, <3>1, <3>2 DEF Desks
    <3>4. desk'.wins = desk.wins
      BY <2>0, <3>2 DEF Desks
    <3>. QED
      BY <3>3, <3>4
  <2>. QED
    BY <2>1, <2>2, <2>3 DEF RaiseWindow, PressButton, WriteRect
<1>6. PICK a \in {"focused", "pressed", "ok", "refused"}, r \in {mac.refs, mac.refs \ {"button"}} :
        Goes("drop", a, r) /\ (a = "ok" => mac.op = "place") /\ (mac.pc = "press" => r = mac.refs \ {"button"})
  BY <1>1
<1>7. "drop" \in MacPlaces /\ a \in MacAnswers /\ r \in SUBSET MacRefs
  BY <1>6, BeforeStep, MacNames
<1>8. RefsRule(At("drop", r, mac.borrowed))
  BY <1>1, <1>6, BeforeStep DEF MacRule, RefsRule, At
<1>9. mac.pc # "idle" /\ (a = "ok" => mac.op # "close")
  BY <1>1, <1>6
<1>. QED
  BY ZenonT(40), <1>1, <1>3, <1>4, <1>5, <1>6, <1>7, <1>8, <1>9, CallGoes DEF Goes

\* The content is read from the first element, or from the largest child.
LEMMA DescendKeeps ==
  ASSUME MacInv, DescendContents \/ DescendChildren
  PROVE  MacInv'
<1>0. mac.pc \in {"contents", "children"} /\ UNCHANGED <<desk, macPast>>
  BY DEF DescendContents, DescendChildren
<1>1. ASSUME NEW kids \in Children, NEW b \in Nat, NEW by \in {"contents", "largest_child"},
             by = "largest_child" => b # 0 /\ b = BestChild(kids),
             mac' = [mac EXCEPT !.pc = "child", !.kids = kids, !.picked = b, !.descent = by, !.refs = @ \cup {"array"}]
      PROVE  MacInv'
  <2>. DEFINE x == [mac EXCEPT !.pc = "child", !.kids = kids, !.picked = b, !.descent = by, !.refs = @ \cup {"array"}]
  <2>1. mac \in MacCallRecords /\ MacRule(mac, desk, macPast) /\ kids \in Seq(Nat) /\ mac.refs \cup {"array"} \in SUBSET MacRefs
    BY BeforeStep, MacAssumption
  <2>2. x \in MacCallRecords
    BY <2>1, MacNames DEF MacCallRecords
  <2>3. x.pc = "child" /\ x.refs = mac.refs \cup {"array"} /\ x.borrowed = mac.borrowed /\ x.answer = mac.answer
    BY <2>1 DEF MacCallRecords
  <2>4. x.win = mac.win /\ x.exact = mac.exact /\ x.op = mac.op
    BY <2>1 DEF MacCallRecords
  <2>5. x.kids = kids /\ x.picked = b /\ x.descent = by
    BY <2>1 DEF MacCallRecords
  <2>. HIDE DEF x
  <2>6. RefsRule(x)
    BY <1>0, <2>1, <2>3 DEF MacRule, RefsRule
  <2>7. TouchRule(x, macPast.touched) /\ CloseRule(x, desk.wins)
    BY <1>0, <2>1, <2>3, <2>4 DEF MacRule, TouchRule, CloseRule
  <2>8. ChildRule(x)
    BY <1>1, <2>1, <2>5, BestIsLargest DEF ChildRule
  <2>. QED
    BY <1>0, <1>1, <2>2, <2>6, <2>7, <2>8, BeforeStep DEF MacInv, MacRule, x
<1>2. CASE DescendContents
  <2>1. CASE mac' = [mac EXCEPT !.pc = "children"] /\ mac.pc = "contents"
    <3>1. Goes("children", mac.answer, mac.refs) /\ MovesOn("children", mac.answer, mac.refs)
      BY Zenon, <2>1, SamePlace DEF Goes, MovesOn
    <3>. QED
      BY Zenon, <1>0, <3>1, MovesOnKeeps
  <2>2. CASE \E kids \in Children :
               mac' = [mac EXCEPT !.pc = "child", !.kids = kids, !.picked = 1, !.descent = "contents", !.refs = @ \cup {"array"}]
    BY <1>1, <2>2
  <2>. QED
    BY ZenonT(40), <1>2, <2>1, <2>2 DEF DescendContents
<1>3. CASE DescendChildren
  <2>1. CASE mac' = [mac EXCEPT !.pc = "drop", !.answer = "unavailable"] /\ mac.pc = "children"
    <3>1. Goes("drop", "unavailable", mac.refs) /\ MovesOn("drop", "unavailable", mac.refs)
      BY Zenon, <2>1, SamePlace DEF Goes, MovesOn
    <3>. QED
      BY Zenon, <1>0, <3>1, MovesOnKeeps
  <2>2. CASE \E kids \in Children :
               /\ BestChild(kids) # 0
               /\ mac' = [mac EXCEPT !.pc = "child", !.kids = kids, !.picked = BestChild(kids), !.descent = "largest_child",
                                     !.refs = @ \cup {"array"}]
    <3>1. PICK kids \in Children :
               /\ BestChild(kids) # 0
               /\ mac' = [mac EXCEPT !.pc = "child", !.kids = kids, !.picked = BestChild(kids), !.descent = "largest_child",
                                     !.refs = @ \cup {"array"}]
      BY <2>2
    <3>2. kids \in Seq(Nat)
      BY MacAssumption
    <3>3. BestChild(kids) \in Nat
      BY <3>2, BestIsLargest DEF FirstLargest
    <3>. QED
      BY <1>1, <3>1, <3>3
  <2>. QED
    BY <1>3, <2>1, <2>2 DEF DescendChildren
<1>. QED
  BY <1>2, <1>3

\* The references are released.
LEMMA DropKeeps ==
  ASSUME MacInv, DropRefs
  PROVE  MacInv'
<1>. DEFINE c == [mac EXCEPT !.refs = @ \ {"windows", "app"}, !.borrowed = NoMacWin]
<1>1. mac \in MacCallRecords /\ MacRule(mac, desk, macPast) /\ mac.pc = "drop" /\ UNCHANGED <<desk, macPast>>
  BY BeforeStep DEF DropRefs
<1>2. c \in MacCallRecords
  BY <1>1 DEF MacCallRecords, MaybeWin
<1>3. c.pc = "drop" /\ c.refs = mac.refs \ {"windows", "app"} /\ c.borrowed = NoMacWin /\ c.answer = mac.answer
  BY <1>1 DEF MacCallRecords
<1>4. c.win = mac.win /\ c.exact = mac.exact /\ c.op = mac.op
  BY <1>1 DEF MacCallRecords
<1>5. c.kids = mac.kids /\ c.picked = mac.picked /\ c.descent = mac.descent
  BY <1>1 DEF MacCallRecords
<1>6. \E p \in {"focused", "over", "poll", "front"} : mac' = [c EXCEPT !.pc = p]
  BY DEF DropRefs
<1>7. PICK p \in {"focused", "over", "poll", "front"} : mac' = [c EXCEPT !.pc = p]
  BY <1>6
<1>. HIDE DEF c
<1>. DEFINE x == [c EXCEPT !.pc = p]
<1>8. x \in MacCallRecords
  BY <1>2, <1>7, MacNames DEF MacCallRecords
<1>9. x.pc = p /\ x.refs = c.refs /\ x.borrowed = c.borrowed /\ x.answer = c.answer
  BY <1>2 DEF MacCallRecords
<1>10. x.win = c.win /\ x.exact = c.exact /\ x.op = c.op
  BY <1>2 DEF MacCallRecords
<1>11. x.kids = c.kids /\ x.picked = c.picked /\ x.descent = c.descent
  BY <1>2 DEF MacCallRecords
<1>. HIDE DEF x
<1>12. x.refs = {}
  BY <1>1, <1>3, <1>9 DEF MacRule, RefsRule
<1>13. RefsRule(x)
  BY <1>3, <1>7, <1>9, <1>12 DEF RefsRule
<1>14. TouchRule(x, macPast.touched) /\ CloseRule(x, desk.wins)
  BY <1>1, <1>3, <1>4, <1>7, <1>9, <1>10 DEF MacRule, TouchRule, CloseRule
<1>15. desk' \in Desks /\ macPast' \in MacPasts
  BY <1>1, BeforeStep
<1>. QED
  BY <1>1, <1>5, <1>7, <1>8, <1>11, <1>13, <1>14, <1>15, CallMoves DEF x

\* Keys go to whatever window has the keyboard.
LEMMA PostKeeps ==
  ASSUME MacInv, PostKeys
  PROVE  MacInv'
<1>. DEFINE to == IF mac.op = "text" THEN desk.key[AppOf[mac.win]] ELSE desk.key[desk.front]
<1>1. /\ mac.pc = "post" /\ macPast' = [macPast EXCEPT !.typed = @ \cup ({to} \ {NoMacWin})]
      /\ desk' = desk \/ desk' = WindowClosed(to)
  BY DEF PostKeys
<1>2. to \in MaybeWin
  <2>1. desk \in Desks /\ AppOf[mac.win] \in Apps
    BY <1>1, BeforeStep, MacAssumption DEF MacRule, TouchRule
  <2>. QED
    BY <2>1 DEF Desks
<1>. HIDE DEF to
<1>3. macPast' \in MacPasts
  BY <1>1, <1>2, BeforeStep DEF MacPasts, MaybeWin
<1>4. macPast'.touched = macPast.touched
  BY <1>1, BeforeStep DEF MacPasts
<1>5. desk' \in Desks /\ desk'.wins \subseteq desk.wins
  BY <1>1, BeforeStep, ClosingKeeps
<1>6. \E p \in {"poll", "over"}, a \in {mac.answer, "dead", "ok"} :
        Goes(p, a, mac.refs) /\ (a # mac.answer => mac.op # "close")
  <2>1. CASE mac.op = "close"
    BY ZenonT(40), <2>1, SamePlace DEF PostKeys, Goes
  <2>2. CASE mac.op # "close"
    BY Zenon, <2>2, SamePlace DEF PostKeys, MacAnswer, Goes
  <2>. QED
    BY Zenon, <2>1, <2>2
<1>7. PICK p \in {"poll", "over"}, a \in {mac.answer, "dead", "ok"} :
        Goes(p, a, mac.refs) /\ (a # mac.answer => mac.op # "close")
  BY <1>6
<1>8. p \in MacPlaces /\ a \in MacAnswers /\ mac.refs \in SUBSET MacRefs
  BY <1>7, BeforeStep, MacNames
<1>9. RefsRule(At(p, mac.refs, mac.borrowed))
  BY <1>1, <1>7, BeforeStep DEF MacRule, RefsRule, At
<1>10. mac.pc # "idle" /\ (a = "ok" => mac.answer = "ok" \/ mac.op # "close")
  BY <1>1, <1>7
<1>. QED
  BY <1>3, <1>4, <1>5, <1>7, <1>8, <1>9, <1>10, CallGoes DEF Goes

\* A close looks whether the window went.
LEMMA PollKeeps ==
  ASSUME MacInv, PollClosed
  PROVE  MacInv'
<1>0. mac.pc = "poll" /\ UNCHANGED <<desk, macPast>> /\ desk \in Desks /\ macPast \in MacPasts
  BY BeforeStep DEF PollClosed
<1>1. CASE \E a \in {"ok", "close_failed"} :
             mac' = MacAnswer(a) /\ (a = "ok" => (mac.exact => mac.win \notin desk.wins))
  <2>1. PICK a \in {"ok", "close_failed"} :
             mac' = MacAnswer(a) /\ (a = "ok" => (mac.exact => mac.win \notin desk.wins))
    BY Zenon, <1>1
  <2>2. mac' = [mac EXCEPT !.pc = "over", !.answer = a, !.refs = mac.refs]
    BY Zenon, <2>1, SamePlace DEF MacAnswer
  <2>3. "over" \in MacPlaces /\ a \in MacAnswers /\ mac.refs \in SUBSET MacRefs
    BY <2>1, BeforeStep, MacNames
  <2>4. RefsRule(At("over", mac.refs, mac.borrowed))
    BY <1>0, BeforeStep DEF MacRule, RefsRule, At
  <2>. QED
    BY ZenonT(40), <1>0, <2>1, <2>2, <2>3, <2>4, CallGoes
<1>2. CASE mac' = [mac EXCEPT !.polls = @ + 1] /\ ~(mac.polls + 1 >= MaxPolls)
  <2>. DEFINE x == [mac EXCEPT !.polls = @ + 1]
  <2>1. mac \in MacCallRecords /\ MacRule(mac, desk, macPast) /\ mac.polls \in 0..MaxPolls /\ MaxPolls \in Nat
    BY BeforeStep, MacAssumption DEF MacCallRecords
  <2>2. mac.polls + 1 \in 0..MaxPolls
    BY <1>2, <2>1
  <2>3. x \in MacCallRecords
    BY <2>1, <2>2 DEF MacCallRecords
  <2>4. x.pc = mac.pc /\ x.refs = mac.refs /\ x.borrowed = mac.borrowed /\ x.answer = mac.answer
    BY <2>1 DEF MacCallRecords
  <2>5. x.win = mac.win /\ x.exact = mac.exact /\ x.op = mac.op
    BY <2>1 DEF MacCallRecords
  <2>6. x.kids = mac.kids /\ x.picked = mac.picked /\ x.descent = mac.descent
    BY <2>1 DEF MacCallRecords
  <2>. HIDE DEF x
  <2>7. RefsRule(x) /\ TouchRule(x, macPast.touched) /\ CloseRule(x, desk.wins)
    BY <2>1, <2>4, <2>5 DEF MacRule, RefsRule, TouchRule, CloseRule
  <2>. QED
    BY <1>0, <1>2, <2>3, <2>6, <2>7, CallMoves DEF x
<1>. QED
  BY <1>1, <1>2 DEF PollClosed

\* Every step keeps the invariant.
LEMMA MacKeeps ==
  ASSUME MacInv, MacNext
  PROVE  MacInv'
BY UserKeeps, BeginKeeps, QuietKeeps, ActivateKeeps, FindKeeps, TouchingKeeps, DescendKeeps, DropKeeps, PostKeeps, PollKeeps
   DEF MacNext, MacStep

LEMMA MacRests ==
  ASSUME MacInv, UNCHANGED macVars
  PROVE  MacInv'
BY DEF MacInv, MacRule, RefsRule, TouchRule, CloseRule, ChildRule, macVars

\* What the call promises follows.
LEMMA MacPromise ==
  ASSUME MacInv
  PROVE  MacTypeOK /\ OnlyItsWindow /\ RefsBalanced /\ ContentIsTheLargest /\ ClosedIsGone
<1>1. mac \in MacCallRecords /\ desk \in Desks /\ MacRule(mac, desk, macPast)
  BY BeforeStep
<1>2. MacTypeOK
  BY <1>1 DEF MacTypeOK, MacCallRecords, Desks, MaybeWin, MacRefs
<1>3. OnlyItsWindow /\ RefsBalanced /\ ClosedIsGone
  BY <1>1 DEF MacRule, RefsRule, TouchRule, CloseRule, OnlyItsWindow, RefsBalanced, ClosedIsGone
<1>4. ContentIsTheLargest
  <2>1. mac.kids \in Seq(Nat)
    BY <1>1 DEF MacCallRecords
  <2>. QED
    BY <1>1, <2>1 DEF MacRule, ChildRule, FirstLargest, ContentIsTheLargest
<1>. QED
  BY <1>2, <1>3, <1>4

-----------------------------------------------------------------------------
(* The three together.                                                     *)

WindowsInv == LaunchInv /\ CallsInv /\ MacInv

\* Whatever processes, pids, windows, handles, users and other calls do meanwhile: the tree a launch retains and the window
\* it hands out are of the launched process, a Windows surface resolves only to the window it was given for, a call loses
\* the foreground to outsiders only and leaves no key down, and a macOS call touches its own window, gives back every
\* reference, finds the largest child and says a window is closed after it went (porthole-adapter-windows native.rs
\* launch_process, resolve, send; porthole-adapter-macos ax.rs, close_focus.rs, content_rect.rs).
THEOREM WindowMeantIsUsed ==
  AdaptersInit /\ [][AdaptersNext]_<<part, adapterVars>> => []WindowIsTheOneMeant
<1>1. AdaptersInit => WindowsInv
  BY LaunchBegins, CallsInitially, MacBegins DEF AdaptersInit, WindowsInv
<1>2. WindowsInv /\ [AdaptersNext]_<<part, adapterVars>> => WindowsInv'
  <2>. SUFFICES ASSUME WindowsInv, [AdaptersNext]_<<part, adapterVars>> PROVE WindowsInv'
    OBVIOUS
  <2>1. WindowsLaunchNext \/ UNCHANGED launchVars
    BY DEF AdaptersNext, InputPart, WindowsLaunchPart, WindowsPart, BridgePart, PortalPart,
           KWinLaunchPart, ShotPart, MacPart, adapterVars
  <2>2. [WindowsCallsNext]_wcVars
    BY DEF AdaptersNext, InputPart, WindowsLaunchPart, WindowsPart, BridgePart, PortalPart,
           KWinLaunchPart, ShotPart, MacPart, adapterVars
  <2>3. MacNext \/ UNCHANGED macVars
    BY DEF AdaptersNext, InputPart, WindowsLaunchPart, WindowsPart, BridgePart, PortalPart,
           KWinLaunchPart, ShotPart, MacPart, adapterVars
  <2>. QED
    BY <2>1, <2>2, <2>3, LaunchKeeps, LaunchRests, CallsStep, MacKeeps, MacRests DEF WindowsInv
<1>3. WindowsInv => WindowIsTheOneMeant
  BY LaunchPromise, CallsPromise, MacPromise DEF WindowsInv, WindowIsTheOneMeant
<1>. QED
  BY <1>1, <1>2, <1>3, PTL

-----------------------------------------------------------------------------
(* Windows: the picture of a window whose handle changed hands.            *)

\* The windows behind a handle are numbered upwards: a surface was given for the one there is or an earlier one, and the
\* window that was drawn is neither older than the surface nor younger than the one there is.
TookRule(x) ==
  x.at # "none" => /\ x.s.id <= wnd[x.s.h].id
                   /\ x.at = "printed" => x.s.id <= x.took /\ x.took <= wnd[x.s.h].id
TookInv == (\A h \in Handles : surf[h].id <= wnd[h].id) /\ \A c \in Callers : TookRule(call[c])

LEMMA TookBegins ==
  ASSUME WindowsCallsInit
  PROVE  TookInv
<1>1. \A h \in Handles : surf[h].id = 1 /\ wnd[h].id = 1
  BY DEF WindowsCallsInit
<1>2. \A c \in Callers : call[c].at = "none"
  BY DEF WindowsCallsInit, NoCall
<1>. QED
  BY <1>1, <1>2 DEF TookInv, TookRule

\* Calls go on or begin, and windows grow older.
LEMMA TookStays ==
  ASSUME CallsInv, TookInv, wnd' \in [Handles -> [id : Nat, cookie : Nat]],
         \A h \in Handles : wnd[h].id <= wnd'[h].id /\ surf'[h].id <= wnd'[h].id,
         \A c \in Callers :
           \/ /\ call'[c].s = call[c].s /\ call'[c].took = call[c].took /\ (call'[c].at # "none" => call[c].at # "none")
              /\ call'[c].at = "printed" => call[c].at = "printed"
           \/ call'[c].at # "printed" /\ \E h \in Handles : call'[c].s = surf[h] /\ UNCHANGED wnd
           \/ /\ call'[c].s = call[c].s /\ call[c].at # "none" /\ call'[c].took = wnd[call[c].s.h].id /\ UNCHANGED wnd
  PROVE  TookInv'
<1>1. call \in [Callers -> CallRecords] /\ \A h \in Handles : wnd[h].id \in Nat /\ surf[h].id \in Nat /\ surf[h].h = h
  BY DEF CallsInv, MarkInv, GivenSurfaces
<1>2. \A c \in Callers : /\ call[c].s.id \in Nat /\ call[c].took \in Nat
                         /\ (call[c].at # "none" => call[c].s.h \in Handles)
  BY <1>1 DEF CallsInv, CallRule, CallRecords, GivenSurfaces
<1>3. \A h \in Handles : wnd'[h].id \in Nat
  OBVIOUS
<1>4. ASSUME NEW c \in Callers PROVE TookRule(call[c])'
  <2>0. TookRule(call[c]) /\ \A h \in Handles : surf[h].id <= wnd[h].id
    BY DEF TookInv
  <2>1. CASE /\ call'[c].s = call[c].s /\ call'[c].took = call[c].took /\ (call'[c].at # "none" => call[c].at # "none")
             /\ call'[c].at = "printed" => call[c].at = "printed"
    BY <1>1, <1>2, <1>3, <2>0, <2>1 DEF TookRule
  <2>2. CASE call'[c].at # "printed" /\ \E h \in Handles : call'[c].s = surf[h] /\ UNCHANGED wnd
    BY <1>1, <2>0, <2>2 DEF TookRule
  <2>3. CASE call'[c].s = call[c].s /\ call[c].at # "none" /\ call'[c].took = wnd[call[c].s.h].id /\ UNCHANGED wnd
    BY <1>1, <1>2, <2>0, <2>3 DEF TookRule
  <2>. QED
    BY <2>1, <2>2, <2>3
<1>. QED
  BY <1>4 DEF TookInv

\* What an action that moves a call on leaves alone.
LEMMA PlaceOnly ==
  ASSUME NEW x \in CallRecords, NEW p, NEW u, NEW n
  PROVE  /\ [x EXCEPT !.at = p].s = x.s /\ [x EXCEPT !.at = p].took = x.took /\ [x EXCEPT !.at = p].at = p
         /\ [x EXCEPT !.at = p, !.upset = u].s = x.s /\ [x EXCEPT !.at = p, !.upset = u].took = x.took
         /\ [x EXCEPT !.at = p, !.upset = u].at = p
         /\ [x EXCEPT !.at = p, !.left = n].s = x.s /\ [x EXCEPT !.at = p, !.left = n].took = x.took
         /\ [x EXCEPT !.at = p, !.left = n].at = p
         /\ [x EXCEPT !.upset = u].s = x.s /\ [x EXCEPT !.upset = u].took = x.took /\ [x EXCEPT !.upset = u].at = x.at
         /\ [x EXCEPT !.at = p, !.took = n].s = x.s /\ [x EXCEPT !.at = p, !.took = n].took = n /\ [x EXCEPT !.at = p, !.took = n].at = p
BY DEF CallRecords

LEMMA UpsetOnly ==
  ASSUME NEW x \in CallRecords, NEW y, y = [x EXCEPT !.upset = TRUE]
  PROVE  y.s = x.s /\ y.took = x.took /\ y.at = x.at
BY DEF CallRecords

LEMMA TookKeeps ==
  ASSUME CallsInv, TookInv, WindowsCallsNext
  PROVE  TookInv'
<1>0. /\ call \in [Callers -> CallRecords] /\ surf \in [Handles -> GivenSurfaces] /\ wnd \in [Handles -> [id : Nat, cookie : Nat]]
      /\ \A h \in Handles : surf[h].id <= wnd[h].id /\ wnd[h].id \in Nat /\ wnd[h].id <= wnd[h].id
      /\ \A c \in Callers : call[c] \in CallRecords
  <2>1. call \in [Callers -> CallRecords] /\ surf \in [Handles -> GivenSurfaces] /\ wnd \in [Handles -> [id : Nat, cookie : Nat]]
    BY DEF CallsInv, MarkInv
  <2>2. \A h \in Handles : wnd[h].id \in Nat /\ wnd[h].id <= wnd[h].id
    BY <2>1
  <2>. QED
    BY <2>1, <2>2 DEF TookInv
\* One call goes on, with the surface it has.
<1>1. ASSUME NEW c \in Callers, UNCHANGED <<wnd, surf>>, NEW y, call' = [call EXCEPT ![c] = y], call[c].at # "none",
             y.s = call[c].s, y.took = call[c].took, y.at # "printed"
      PROVE  TookInv'
  <2>1. \A d \in Callers : IF d = c THEN call'[d] = y ELSE call'[d] = call[d]
    BY <1>0, <1>1
  <2>2. \A d \in Callers : /\ call'[d].s = call[d].s /\ call'[d].took = call[d].took /\ (call'[d].at # "none" => call[d].at # "none")
                           /\ call'[d].at = "printed" => call[d].at = "printed"
    BY <1>1, <2>1
  <2>. QED
    BY <1>0, <1>1, <2>2, TookStays
\* One call begins.
<1>2. ASSUME NEW c \in Callers, NEW h \in Handles, UNCHANGED <<wnd, surf>>, NEW p \in {"lock", "printing", "refused", "dead"}, NEW y,
             call' = [call EXCEPT ![c] = y], y.at = p, y.s = surf[h]
      PROVE  TookInv'
  <2>1. \A d \in Callers : IF d = c THEN call'[d] = y ELSE call'[d] = call[d]
    BY <1>0, <1>2
  <2>2. \A d \in Callers :
           \/ /\ call'[d].s = call[d].s /\ call'[d].took = call[d].took /\ (call'[d].at # "none" => call[d].at # "none")
              /\ call'[d].at = "printed" => call[d].at = "printed"
           \/ call'[d].at # "printed" /\ \E g \in Handles : call'[d].s = surf[g] /\ UNCHANGED wnd
    BY <1>2, <2>1
  <2>. QED
    BY <1>0, <1>2, <2>2, TookStays
\* Somebody outside upsets every call.
<1>3. ASSUME call' = [c \in Callers |-> [call[c] EXCEPT !.upset = TRUE]], UNCHANGED surf,
             wnd' \in [Handles -> [id : Nat, cookie : Nat]], \A h \in Handles : wnd[h].id <= wnd'[h].id
      PROVE  TookInv'
  <2>1. \A d \in Callers : /\ call'[d].s = call[d].s /\ call'[d].took = call[d].took /\ (call'[d].at # "none" => call[d].at # "none")
                           /\ call'[d].at = "printed" => call[d].at = "printed"
    <3>. TAKE d \in Callers
    <3>1. PICK y : y = call'[d]
      OBVIOUS
    <3>2. y = [call[d] EXCEPT !.upset = TRUE]
      BY <1>3, <3>1
    <3>3. y.s = call[d].s /\ y.took = call[d].took /\ y.at = call[d].at
      BY <1>0, <3>2, UpsetOnly
    <3>. QED
      BY <3>1, <3>3
  <2>2. \A h \in Handles : wnd'[h].id \in Nat /\ surf[h].id \in Nat
    BY <1>0, <1>3 DEF GivenSurfaces
  <2>3. \A h \in Handles : wnd[h].id <= wnd'[h].id /\ surf'[h].id <= wnd'[h].id
    BY <1>0, <1>3, <2>2
  <2>. QED
    BY <1>3, <2>1, <2>3, TookStays
<1>4. ASSUME NEW h \in Handles, Identify(h) PROVE TookInv'
  <2>1. call' = call /\ wnd[h] \in [id : Nat, cookie : Nat] /\ surf[h] \in GivenSurfaces
    BY <1>0, <1>4 DEF Identify
  <2>2. PICK k \in Nat : /\ wnd' = [wnd EXCEPT ![h].cookie = k] \/ wnd' = wnd
                         /\ surf' = [surf EXCEPT ![h] = [surf[h] EXCEPT !.cookie = k, !.id = wnd[h].id]]
    BY <1>0, <1>4, <2>1 DEF Identify
  <2>7. PICK t : t = [surf[h] EXCEPT !.cookie = k, !.id = wnd[h].id]
    OBVIOUS
  <2>3. t.id = wnd[h].id
    BY <2>1, <2>7 DEF GivenSurfaces
  <2>4. wnd' \in [Handles -> [id : Nat, cookie : Nat]] /\ \A g \in Handles : wnd'[g].id = wnd[g].id
    BY <1>0, <2>1, <2>2
  <2>5. \A g \in Handles : surf'[g].id <= wnd[g].id
    BY <1>0, <2>2, <2>3, <2>7
  <2>. QED
    BY <1>0, <2>1, <2>4, <2>5, TookStays
<1>5. ASSUME NEW h \in Handles, Replace(h) PROVE TookInv'
  <2>1. PICK v : v = [id |-> wnd[h].id + 1, cookie |-> 0] /\ wnd' = [wnd EXCEPT ![h] = v]
    BY <1>5 DEF Replace
  <2>2. v \in [id : Nat, cookie : Nat] /\ v.id = wnd[h].id + 1
    BY <1>0, <2>1
  <2>3. wnd' \in [Handles -> [id : Nat, cookie : Nat]] /\ wnd'[h] = v /\ \A g \in Handles : g # h => wnd'[g] = wnd[g]
    BY <1>0, <2>1, <2>2
  <2>4. \A g \in Handles : wnd[g].id <= wnd'[g].id
    BY <1>0, <2>2, <2>3
  <2>. QED
    BY <1>3, <1>5, <2>3, <2>4 DEF Replace
<1>6. ASSUME NEW h \in Handles \cup {Desktop}, TakeForeground(h) PROVE TookInv'
  BY <1>0, <1>3, <1>6 DEF TakeForeground
<1>7. ASSUME NEW c \in Callers, NEW h \in Handles, StartShot(c, h) \/ \E n \in 0..MaxBatches : Request(c, h, n) PROVE TookInv'
  <2>0. NoCall \in CallRecords
    <3>1. NoSurface \in GivenSurfaces /\ "none" \in CallPlaces
      BY DEF NoSurface, GivenSurfaces, CallPlaces
    <3>. QED
      BY <3>1 DEF NoCall, CallRecords
  <2>1. CASE StartShot(c, h)
    <3>1. PICK p \in {"printing", "refused", "dead"} : call' = [call EXCEPT ![c] = [NoCall EXCEPT !.at = p, !.s = surf[h]]]
      BY <2>1 DEF StartShot
    <3>2. PICK y : y = [NoCall EXCEPT !.at = p, !.s = surf[h]]
      OBVIOUS
    <3>3. y.at = p /\ y.s = surf[h]
      BY <2>0, <3>2 DEF CallRecords
    <3>4. UNCHANGED <<wnd, surf>> /\ call' = [call EXCEPT ![c] = y]
      BY <2>1, <3>1, <3>2 DEF StartShot
    <3>. QED
      BY <1>2, <3>1, <3>3, <3>4
  <2>2. CASE \E n \in 0..MaxBatches : Request(c, h, n)
    <3>1. PICK n \in 0..MaxBatches : Request(c, h, n)
      BY <2>2
    <3>2. PICK y : y = [NoCall EXCEPT !.at = "lock", !.s = surf[h], !.left = n]
      OBVIOUS
    <3>3. y.at = "lock" /\ y.s = surf[h]
      BY <2>0, <3>2 DEF CallRecords
    <3>4. UNCHANGED <<wnd, surf>> /\ call' = [call EXCEPT ![c] = y]
      BY <3>1, <3>2 DEF Request
    <3>. QED
      BY <1>2, <3>3, <3>4
  <2>. QED
    BY <1>7, <2>1, <2>2
<1>8. ASSUME NEW c \in Callers, Lock(c) \/ Activate(c) \/ Poll(c) \/ CheckSend(c) \/ SendInput(c) \/ ShotTimesOut(c) \/ FinishShot(c)
      PROVE  TookInv'
  <2>1. UNCHANGED <<wnd, surf>> /\ call[c].at # "none" /\ call[c] \in CallRecords
    BY <1>0, <1>8 DEF Lock, Activate, Poll, CheckSend, SendInput, ShotTimesOut, FinishShot
  <2>2. \/ \E p \in {"ok", "dead", "refused", "lost", "poll", "send", "insert", "abandoned"} : call' = [call EXCEPT ![c].at = p]
        \/ call' = [call EXCEPT ![c].at = "focus", ![c].upset = FALSE]
        \/ call' = [call EXCEPT ![c].at = "send", ![c].left = @ - 1]
    BY <1>8 DEF Lock, Activate, Poll, CheckSend, SendInput, ShotTimesOut, FinishShot, Ends, Inserted
  <2>3. CASE \E p \in {"ok", "dead", "refused", "lost", "poll", "send", "insert", "abandoned"} : call' = [call EXCEPT ![c].at = p]
    <3>1. PICK p \in {"ok", "dead", "refused", "lost", "poll", "send", "insert", "abandoned"} : call' = [call EXCEPT ![c].at = p]
      BY <2>3
    <3>2. PICK y : y = [call[c] EXCEPT !.at = p]
      OBVIOUS
    <3>3. y.s = call[c].s /\ y.took = call[c].took /\ y.at = p
      BY <2>1, <3>2, PlaceOnly
    <3>4. call' = [call EXCEPT ![c] = y]
      BY <1>0, <3>1, <3>2
    <3>. QED
      BY <1>1, <2>1, <3>1, <3>3, <3>4
  <2>4. CASE call' = [call EXCEPT ![c].at = "focus", ![c].upset = FALSE]
    <3>2. PICK y : y = [call[c] EXCEPT !.at = "focus", !.upset = FALSE]
      OBVIOUS
    <3>3. y.s = call[c].s /\ y.took = call[c].took /\ y.at = "focus"
      BY <2>1, <3>2, PlaceOnly
    <3>4. call' = [call EXCEPT ![c] = y]
      BY <1>0, <2>4, <3>2
    <3>. QED
      BY <1>1, <2>1, <3>3, <3>4
  <2>5. CASE call' = [call EXCEPT ![c].at = "send", ![c].left = @ - 1]
    <3>2. PICK y : y = [call[c] EXCEPT !.at = "send", !.left = @ - 1]
      OBVIOUS
    <3>3. y.s = call[c].s /\ y.took = call[c].took /\ y.at = "send"
      BY <2>1, <3>2, PlaceOnly
    <3>4. call' = [call EXCEPT ![c] = y]
      BY <1>0, <2>5, <3>2
    <3>. QED
      BY <1>1, <2>1, <3>3, <3>4
  <2>. QED
    BY <2>2, <2>3, <2>4, <2>5
<1>9. ASSUME NEW c \in Callers, PrintWindow(c) PROVE TookInv'
  <2>1. PICK p, y : y = [call[c] EXCEPT !.at = p, !.took = wnd[call[c].s.h].id] /\ call' = [call EXCEPT ![c] = y]
    BY <1>0, <1>9 DEF PrintWindow
  <2>2. y.s = call[c].s /\ y.took = wnd[call[c].s.h].id /\ call[c].at # "none" /\ UNCHANGED <<wnd, surf>>
    BY <1>0, <1>9, <2>1, PlaceOnly DEF PrintWindow
  <2>3. \A d \in Callers : IF d = c THEN call'[d] = y ELSE call'[d] = call[d]
    BY <1>0, <2>1
  <2>4. \A d \in Callers :
           \/ /\ call'[d].s = call[d].s /\ call'[d].took = call[d].took /\ (call'[d].at # "none" => call[d].at # "none")
              /\ call'[d].at = "printed" => call[d].at = "printed"
           \/ /\ call'[d].s = call[d].s /\ call[d].at # "none" /\ call'[d].took = wnd[call[d].s.h].id /\ UNCHANGED wnd
    BY <2>2, <2>3
  <2>. QED
    BY <1>0, <2>2, <2>4, TookStays
<1>. QED
  BY <1>4, <1>5, <1>6, <1>7, <1>8, <1>9 DEF WindowsCallsNext

LEMMA TookRests ==
  ASSUME TookInv, UNCHANGED wcVars
  PROVE  TookInv'
<1>1. wnd' = wnd /\ surf' = surf /\ call' = call
  BY DEF wcVars
<1>. QED
  BY <1>1 DEF TookInv, TookRule

\* A picture is answered for a surface that still resolves: the window there is is the one the surface was given for, and
\* so is the one that was drawn.
LEMMA PictureOfTheSurface ==
  ASSUME CallsInv, TookInv, WindowsCallsNext, NEW c \in Callers, call[c].at = "printed", call'[c].at = "ok"
  PROVE  call[c].took = call[c].s.id
<1>0. call \in [Callers -> CallRecords] /\ call[c] \in CallRecords
  BY Zenon DEF CallsInv
<1>1. FinishShot(c)
  <2>1. call' # call
    OBVIOUS
  <2>2. ASSUME NEW d \in Callers, d # c, NEW y, call' = [call EXCEPT ![d] = y] PROVE FALSE
    <3>1. call'[c] = call[c]
      BY <1>0, <2>2
    <3>. QED
      BY <3>1
  <2>3. ~(call' = [d \in Callers |-> [call[d] EXCEPT !.upset = TRUE]])
    <3>. SUFFICES ASSUME call' = [d \in Callers |-> [call[d] EXCEPT !.upset = TRUE]] PROVE FALSE
      OBVIOUS
    <3>1. call'[c] = [call[c] EXCEPT !.upset = TRUE]
      OBVIOUS
    <3>2. call'[c].at = call[c].at
      BY <1>0, <3>1, UpsetOnly
    <3>. QED
      BY <3>2
  <2>4. \E d \in Callers : \/ \E h \in Handles : StartShot(d, h) \/ (\E n \in 0..MaxBatches : Request(d, h, n))
                           \/ Lock(d) \/ Activate(d) \/ Poll(d) \/ CheckSend(d) \/ SendInput(d)
                           \/ PrintWindow(d) \/ ShotTimesOut(d) \/ FinishShot(d)
    BY <2>1, <2>3 DEF WindowsCallsNext, Identify, Replace, TakeForeground
  <2>5. PICK d \in Callers : \/ \E h \in Handles : StartShot(d, h) \/ (\E n \in 0..MaxBatches : Request(d, h, n))
                             \/ Lock(d) \/ Activate(d) \/ Poll(d) \/ CheckSend(d) \/ SendInput(d)
                             \/ PrintWindow(d) \/ ShotTimesOut(d) \/ FinishShot(d)
    BY <2>4
  <2>6. \E y : call' = [call EXCEPT ![d] = y]
    <3>1. CASE \E h \in Handles : StartShot(d, h) \/ (\E n \in 0..MaxBatches : Request(d, h, n))
      BY <3>1 DEF StartShot, Request
    <3>2. CASE Lock(d) \/ Activate(d) \/ Poll(d) \/ CheckSend(d) \/ SendInput(d) \/ PrintWindow(d) \/ ShotTimesOut(d) \/ FinishShot(d)
      <4>1. \/ \E p : call' = [call EXCEPT ![d].at = p]
            \/ \E p, u : call' = [call EXCEPT ![d].at = p, ![d].upset = u]
            \/ \E p : call' = [call EXCEPT ![d].at = p, ![d].left = @ - 1]
            \/ \E p, k : call' = [call EXCEPT ![d].at = p, ![d].took = k]
        BY <1>0, <3>2 DEF Lock, Activate, Poll, CheckSend, SendInput, PrintWindow, ShotTimesOut, FinishShot, Ends, Inserted
      <4>. QED
        BY <1>0, <4>1
    <3>. QED
      BY <2>5, <3>1, <3>2
  <2>7. d = c
    BY <2>2, <2>6
  <2>. QED
    BY Zenon, <2>5, <2>7 DEF StartShot, Request, Lock, Activate, Poll, CheckSend, SendInput, PrintWindow, ShotTimesOut
<1>2. Resolves(call[c].s)
  <2>1. PICK y : y = [call[c] EXCEPT !.at = IF Resolves(call[c].s) THEN "ok" ELSE "dead"]
    OBVIOUS
  <2>2. y.at = IF Resolves(call[c].s) THEN "ok" ELSE "dead"
    BY <1>0, <2>1, PlaceOnly
  <2>3. call'[c] = y
    BY <1>0, <1>1, <2>1 DEF FinishShot
  <2>. QED
    BY <2>2, <2>3
<1>3. call[c].s.h \in Handles /\ call[c].s.cookie = call[c].s.id /\ TookRule(call[c])
  BY DEF CallsInv, CallRule, TookInv
<1>4. wnd[call[c].s.h].id = call[c].s.id /\ wnd[call[c].s.h].id \in Nat
  BY <1>2, <1>3 DEF Resolves, CallsInv, MarkInv
<1>5. call[c].took \in Nat /\ call[c].s.id \in Nat
  BY <1>0 DEF CallRecords, GivenSurfaces
<1>. QED
  BY <1>3, <1>4, <1>5 DEF TookRule

-----------------------------------------------------------------------------
(* KWin's command bridge.  A command is at one place at a time: in the     *)
(* queue, in a script's hand, or handed out for good.                      *)

KCallRecords == [at: {"none", "wait", "ok", "failed", "timeout", "dropped"}, kind: Kinds, asked: 0..MaxVersion]
ScriptRecords == [at: {"off", "poll", "stale", "run"}, id: KCalls \union {None}]
SnapshotMessages == [kind: {"snapshot"}, version: 0..MaxVersion]
DoneMessages == [kind: {"done"}, id: KCalls, ok: BOOLEAN]
Completions == UNION {[S -> BOOLEAN] : S \in SUBSET KCalls}
BridgeRecords == [queue: Seq(KCalls), pending: SUBSET KCalls, done: Completions, latest: 0..MaxVersion]
Compositors == [version: 0..MaxVersion, ran: [KCalls -> 0..1], stops: 0..MaxStops]

Distinct(q) == \A i, j \in 1..Len(q) : i # j => q[i] # q[j]
InQueue(c, q) == \E n \in 1..Len(q) : q[n] = c
Pending(c) == kcall[c].at \in {"wait", "dropped"}
\* The command of c was taken off the queue and does not come back.
Out(c) == kcall[c].at # "none" /\ ~InQueue(c, bridge.queue)

KWinTypes ==
  /\ kcall \in [KCalls -> KCallRecords] /\ script \in [Scripts -> ScriptRecords]
  /\ bridge \in BridgeRecords /\ comp \in Compositors
  /\ bus \in Seq(SnapshotMessages \union DoneMessages) /\ overtaken \in BOOLEAN

WaitingRule == Distinct(bridge.queue) /\ \A n \in 1..Len(bridge.queue) : Pending(bridge.queue[n])
InHand(s) == script[s].at = "run"
HandRule ==
  /\ \A s \in Scripts : InHand(s) => script[s].id \in KCalls /\ Out(script[s].id) /\ comp.ran[script[s].id] = 0
  /\ \A s, t \in Scripts : InHand(s) /\ InHand(t) /\ s # t => script[s].id # script[t].id
RanRule == \A c \in KCalls : comp.ran[c] = 1 => Out(c)
BusRule == \A n \in 1..Len(bus) : bus[n] \in DoneMessages => Out(bus[n].id) /\ (bus[n].ok => comp.ran[bus[n].id] = 1)
DoneRule == \A c \in DOMAIN bridge.done : c \in bridge.pending /\ Out(c) /\ (bridge.done[c] => comp.ran[c] = 1)
PendingRule == \A c \in bridge.pending : Pending(c)
OkRule == \A c \in KCalls : kcall[c].at = "ok" => comp.ran[c] = 1

KWinInv == KWinTypes /\ WaitingRule /\ HandRule /\ RanRule /\ BusRule /\ DoneRule /\ PendingRule /\ OkRule

LEMMA KWinBegins ==
  ASSUME KWinInit
  PROVE  KWinInv
<1>1. MaxVersion \in Nat /\ MaxStops \in Nat
  BY KWinAssumption
<1>2. kcall \in [KCalls -> KCallRecords]
  <2>1. [at |-> "none", kind |-> "window", asked |-> 0] \in KCallRecords
    BY <1>1 DEF KCallRecords, Kinds
  <2>. QED
    BY <2>1 DEF KWinInit
<1>9. script \in [Scripts -> ScriptRecords] /\ overtaken \in BOOLEAN
  <2>1. [at |-> "off", id |-> None] \in ScriptRecords
    BY DEF ScriptRecords
  <2>. QED
    BY <2>1 DEF KWinInit
<1>3. [c \in {} |-> TRUE] \in Completions
  <2>1. [c \in {} |-> TRUE] \in [{} -> BOOLEAN]
    OBVIOUS
  <2>. QED
    BY <2>1 DEF Completions
<1>4. bridge \in BridgeRecords /\ comp \in Compositors
  BY <1>1, <1>3 DEF KWinInit, BridgeRecords, Compositors
<1>5. bus \in Seq(SnapshotMessages \union DoneMessages) /\ Len(bus) = 0
  BY DEF KWinInit
<1>6. bridge.queue = <<>> /\ bridge.pending = {} /\ DOMAIN bridge.done = {}
  BY DEF KWinInit
<1>7. WaitingRule /\ BusRule /\ DoneRule /\ PendingRule
  BY <1>5, <1>6 DEF WaitingRule, BusRule, DoneRule, PendingRule, Distinct
<1>8. HandRule /\ RanRule /\ OkRule
  BY DEF KWinInit, HandRule, RanRule, OkRule, InHand
<1>. QED
  BY <1>2, <1>4, <1>5, <1>7, <1>8, <1>9 DEF KWinInv, KWinTypes

\* What is left when one element of a sequence is removed.
LEMMA Removed ==
  ASSUME NEW S, NEW q \in Seq(S), NEW n \in 1..Len(q)
  PROVE  /\ RemoveAt(q, n) \in Seq(S) /\ Len(RemoveAt(q, n)) = Len(q) - 1
         /\ \A i \in 1..(Len(q) - 1) : RemoveAt(q, n)[i] = q[IF i < n THEN i ELSE i + 1]
<1>. DEFINE a == SubSeq(q, 1, n - 1)
            b == SubSeq(q, n + 1, Len(q))
<1>1. a \in Seq(S) /\ Len(a) = n - 1 /\ \A i \in 1..(n - 1) : a[i] = q[i]
  OBVIOUS
<1>2. b \in Seq(S) /\ Len(b) = Len(q) - n /\ \A i \in 1..(Len(q) - n) : b[i] = q[n + i]
  OBVIOUS
<1>6. RemoveAt(q, n) = a \o b
  BY DEF RemoveAt
<1>. HIDE DEF a, b
<1>3. /\ a \o b \in Seq(S) /\ Len(a \o b) = Len(a) + Len(b)
      /\ \A i \in 1..(Len(a) + Len(b)) : (a \o b)[i] = IF i <= Len(a) THEN a[i] ELSE b[i - Len(a)]
  BY <1>1, <1>2, ConcatProperties
<1>4. Len(a) + Len(b) = Len(q) - 1
  BY <1>1, <1>2
<1>5. \A i \in 1..(Len(q) - 1) : (a \o b)[i] = q[IF i < n THEN i ELSE i + 1]
  <2>. TAKE i \in 1..(Len(q) - 1)
  <2>1. CASE i < n
    BY <1>1, <1>3, <1>4, <2>1
  <2>2. CASE ~(i < n)
    <3>1. i - Len(a) \in 1..(Len(q) - n) /\ n + (i - Len(a)) = i + 1 /\ ~(i <= Len(a))
      BY <1>1, <2>2
    <3>. QED
      BY <1>2, <1>3, <1>4, <2>2, <3>1
  <2>. QED
    BY <2>1, <2>2
<1>. QED
  BY <1>3, <1>4, <1>5, <1>6

\* What an abandoned command leaves of the queue.
LEMMA WithoutIt ==
  ASSUME NEW S, NEW q \in Seq(S), NEW c, Distinct(q)
  PROVE  /\ Without(q, c) \in Seq(S) /\ Distinct(Without(q, c)) /\ ~InQueue(c, Without(q, c))
         /\ \A n \in 1..Len(Without(q, c)) : InQueue(Without(q, c)[n], q)
<1>1. CASE c \notin Range(q)
  BY <1>1 DEF Without, InQueue, Range
<1>2. CASE c \in Range(q)
  <2>. DEFINE n == CHOOSE k \in DOMAIN q : q[k] = c
              r == RemoveAt(q, n)
  <2>1. n \in 1..Len(q) /\ q[n] = c
    BY <1>2 DEF Range
  <2>2. r \in Seq(S) /\ Len(r) = Len(q) - 1 /\ \A i \in 1..(Len(q) - 1) : r[i] = q[IF i < n THEN i ELSE i + 1]
    BY <2>1, Removed
  <2>3. Without(q, c) = r
    BY <1>2 DEF Without
  <2>. HIDE DEF n, r
  <2>. DEFINE from(i) == IF i < n THEN i ELSE i + 1
  <2>4. \A i \in 1..Len(r) : from(i) \in 1..Len(q) /\ from(i) # n /\ r[i] = q[from(i)]
    BY <2>1, <2>2
  <2>5. \A i, j \in 1..Len(r) : i # j => from(i) # from(j)
    BY <2>1, <2>2
  <2>. HIDE DEF from
  <2>6. Distinct(r)
    BY <2>4, <2>5 DEF Distinct
  <2>7. ~InQueue(c, r) /\ \A i \in 1..Len(r) : InQueue(r[i], q)
    BY <2>1, <2>4 DEF Distinct, InQueue
  <2>. QED
    BY <2>2, <2>3, <2>6, <2>7
<1>. QED
  BY <1>1, <1>2

\* A completion is taken away.
LEMMA TakenAway ==
  ASSUME NEW f \in Completions, NEW c
  PROVE  /\ Restrict(f, DOMAIN f \ {c}) \in Completions
         /\ DOMAIN Restrict(f, DOMAIN f \ {c}) = DOMAIN f \ {c}
         /\ \A d \in DOMAIN f \ {c} : Restrict(f, DOMAIN f \ {c})[d] = f[d]
<1>1. DOMAIN f \in SUBSET KCalls /\ \A d \in DOMAIN f : f[d] \in BOOLEAN
  BY DEF Completions
<1>2. Restrict(f, DOMAIN f \ {c}) \in [DOMAIN f \ {c} -> BOOLEAN]
  BY <1>1 DEF Restrict
<1>. QED
  BY <1>1, <1>2 DEF Restrict, Completions

\* What a call that ends does to the invariant: its own place moves on from waiting, its completion may go.
LEMMA CallEnds ==
  ASSUME KWinInv, NEW c \in KCalls, kcall[c].at = "wait",
         NEW a \in {"ok", "failed", "timeout"}, a = "ok" => comp.ran[c] = 1,
         kcall' = [kcall EXCEPT ![c].at = a], UNCHANGED <<script, bus, comp, overtaken>>,
         bridge' \in BridgeRecords, Distinct(bridge'.queue), ~InQueue(c, bridge'.queue),
         \A n \in 1..Len(bridge'.queue) : InQueue(bridge'.queue[n], bridge.queue),
         bridge'.pending = bridge.pending \ {c},
         DOMAIN bridge'.done = DOMAIN bridge.done \ {c},
         \A d \in DOMAIN bridge'.done : bridge'.done[d] = bridge.done[d]
  PROVE  KWinInv'
<1>1. /\ kcall \in [KCalls -> KCallRecords] /\ kcall[c] \in KCallRecords /\ bridge.queue \in Seq(KCalls)
      /\ bridge'.queue \in Seq(KCalls) /\ DOMAIN bridge.done \subseteq KCalls /\ bridge.pending \subseteq KCalls
  BY DEF KWinInv, KWinTypes, BridgeRecords, Completions
<1>. DEFINE x == [kcall[c] EXCEPT !.at = a]
<1>2. x \in KCallRecords /\ x.at = a /\ x.kind = kcall[c].kind /\ x.asked = kcall[c].asked
  BY <1>1 DEF KCallRecords
<1>3. kcall' = [kcall EXCEPT ![c] = x]
  BY <1>1
<1>. HIDE DEF x
<1>4. kcall' \in [KCalls -> KCallRecords] /\ kcall'[c].at = a /\ \A d \in KCalls : d # c => kcall'[d] = kcall[d]
  BY <1>1, <1>2, <1>3
<1>5. \A d \in KCalls : Out(d) => Out(d)'
  BY <1>1, <1>4 DEF Out, InQueue
<1>6. WaitingRule'
  <2>. SUFFICES ASSUME NEW n \in 1..Len(bridge'.queue) PROVE kcall'[bridge'.queue[n]].at \in {"wait", "dropped"}
    BY DEF WaitingRule, Distinct, Pending
  <2>1. bridge'.queue[n] \in KCalls /\ bridge'.queue[n] # c /\ InQueue(bridge'.queue[n], bridge.queue)
    BY <1>1 DEF InQueue
  <2>2. kcall[bridge'.queue[n]].at \in {"wait", "dropped"}
    BY <2>1 DEF KWinInv, WaitingRule, InQueue, Pending
  <2>. QED
    BY <1>4, <2>1, <2>2
<1>7. HandRule' /\ RanRule'
  BY <1>5 DEF KWinInv, HandRule, RanRule, InHand
<1>8. BusRule'
  <2>1. \A n \in 1..Len(bus) : bus[n] \in DoneMessages => bus[n].id \in KCalls
    BY DEF DoneMessages
  <2>. QED
    BY <1>5, <2>1 DEF KWinInv, BusRule
<1>9. DoneRule'
  BY <1>1, <1>5 DEF KWinInv, DoneRule
<1>10. PendingRule' /\ OkRule'
  BY <1>1, <1>4 DEF KWinInv, PendingRule, OkRule, Pending
<1>11. KWinTypes'
  BY <1>4 DEF KWinInv, KWinTypes
<1>. QED
  BY <1>6, <1>7, <1>8, <1>9, <1>10, <1>11 DEF KWinInv

LEMMA CompletionKeeps ==
  ASSUME KWinInv, NEW c \in KCalls, Completion(c)
  PROVE  KWinInv'
<1>. DEFINE b == [bridge EXCEPT !.done = Restrict(@, DOMAIN @ \ {c}), !.pending = @ \ {c}]
            a == IF bridge.done[c] THEN "ok" ELSE "failed"
<1>1. bridge \in BridgeRecords /\ bridge.done \in Completions
  BY DEF KWinInv, KWinTypes, BridgeRecords
<1>2. /\ b \in BridgeRecords /\ b.queue = bridge.queue /\ b.pending = bridge.pending \ {c}
      /\ b.done = Restrict(bridge.done, DOMAIN bridge.done \ {c})
  BY <1>1, TakenAway DEF BridgeRecords
<1>3. c \in DOMAIN bridge.done /\ ~InQueue(c, bridge.queue) /\ (bridge.done[c] => comp.ran[c] = 1)
  BY DEF Completion, KWinInv, DoneRule, Out
<1>4. bridge' = b /\ kcall' = [kcall EXCEPT ![c].at = a] /\ UNCHANGED <<script, bus, comp, overtaken>> /\ kcall[c].at = "wait"
  BY DEF Completion
<1>5. a \in {"ok", "failed", "timeout"} /\ (a = "ok" => comp.ran[c] = 1)
  BY <1>3
<1>6. Distinct(bridge.queue) /\ \A n \in 1..Len(bridge.queue) : InQueue(bridge.queue[n], bridge.queue)
  BY DEF KWinInv, WaitingRule, InQueue
<1>. HIDE DEF a, b
<1>7. DOMAIN b.done = DOMAIN bridge.done \ {c} /\ \A d \in DOMAIN b.done : b.done[d] = bridge.done[d]
  <2>. DEFINE f == bridge.done
  <2>1. f \in Completions /\ b.done = Restrict(f, DOMAIN f \ {c})
    BY <1>1, <1>2
  <2>. HIDE DEF f
  <2>2. DOMAIN b.done = DOMAIN f \ {c} /\ \A d \in DOMAIN f \ {c} : b.done[d] = f[d]
    BY <2>1 DEF Restrict
  <2>. QED
    BY <2>2 DEF f
<1>. QED
  BY <1>2, <1>3, <1>4, <1>5, <1>6, <1>7, CallEnds

LEMMA TimeOutKeeps ==
  ASSUME KWinInv, NEW c \in KCalls, TimeOut(c)
  PROVE  KWinInv'
<1>. DEFINE b == [bridge EXCEPT !.queue = Without(@, c), !.pending = @ \ {c}, !.done = Restrict(@, DOMAIN @ \ {c})]
<1>1. bridge \in BridgeRecords /\ bridge.done \in Completions /\ bridge.queue \in Seq(KCalls) /\ Distinct(bridge.queue)
  BY DEF KWinInv, KWinTypes, BridgeRecords, WaitingRule
<1>2. Without(bridge.queue, c) \in Seq(KCalls)
  BY <1>1, WithoutIt
<1>3. /\ b \in BridgeRecords /\ b.queue = Without(bridge.queue, c) /\ b.pending = bridge.pending \ {c}
      /\ b.done = Restrict(bridge.done, DOMAIN bridge.done \ {c})
  BY <1>1, <1>2, TakenAway DEF BridgeRecords
<1>4. bridge' = b /\ kcall' = [kcall EXCEPT ![c].at = "timeout"] /\ UNCHANGED <<script, bus, comp, overtaken>> /\ kcall[c].at = "wait"
  BY DEF TimeOut
<1>. HIDE DEF b
<1>5. DOMAIN b.done = DOMAIN bridge.done \ {c} /\ \A d \in DOMAIN b.done : b.done[d] = bridge.done[d]
  <2>. DEFINE f == bridge.done
  <2>1. f \in Completions /\ b.done = Restrict(f, DOMAIN f \ {c})
    BY <1>1, <1>3
  <2>. HIDE DEF f
  <2>2. DOMAIN b.done = DOMAIN f \ {c} /\ \A d \in DOMAIN f \ {c} : b.done[d] = f[d]
    BY <2>1 DEF Restrict
  <2>. QED
    BY <2>2 DEF f
<1>6. /\ Distinct(b.queue) /\ ~InQueue(c, b.queue)
      /\ \A n \in 1..Len(b.queue) : InQueue(b.queue[n], bridge.queue)
  BY <1>1, <1>3, WithoutIt
<1>. QED
  BY <1>3, <1>4, <1>5, <1>6, CallEnds

\* A call whose command is queued, or that is dropped, or a compositor or a poll that goes: the queue, the completions
\* and what was carried out stay.
LEMMA QueueCommandKeeps ==
  ASSUME KWinInv, NEW c \in KCalls, NEW k \in Kinds, QueueCommand(c, k)
  PROVE  KWinInv'
<1>. DEFINE b == [bridge EXCEPT !.queue = Append(@, c), !.pending = @ \union {c}]
            x == [at |-> "wait", kind |-> k, asked |-> comp.version]
<1>1. /\ bridge \in BridgeRecords /\ bridge.queue \in Seq(KCalls) /\ kcall \in [KCalls -> KCallRecords]
      /\ comp.version \in 0..MaxVersion /\ bridge.done \in Completions
  BY DEF KWinInv, KWinTypes, BridgeRecords, Compositors
<1>2. /\ b \in BridgeRecords /\ b.queue = Append(bridge.queue, c) /\ b.pending = bridge.pending \union {c}
      /\ b.done = bridge.done
  <2>1. Append(bridge.queue, c) \in Seq(KCalls) /\ bridge.pending \union {c} \in SUBSET KCalls
    BY <1>1 DEF BridgeRecords
  <2>. QED
    BY <1>1, <2>1 DEF BridgeRecords
<1>3. x \in KCallRecords /\ x.at = "wait"
  BY <1>1 DEF KCallRecords
<1>4. bridge' = b /\ kcall' = [kcall EXCEPT ![c] = x] /\ UNCHANGED <<script, bus, comp, overtaken>> /\ kcall[c].at = "none"
  BY DEF QueueCommand
<1>. HIDE DEF b, x
<1>5. kcall' \in [KCalls -> KCallRecords] /\ kcall'[c].at = "wait" /\ \A d \in KCalls : d # c => kcall'[d] = kcall[d]
  BY <1>1, <1>3, <1>4
<1>6. /\ Len(bridge'.queue) = Len(bridge.queue) + 1 /\ bridge'.queue[Len(bridge.queue) + 1] = c
      /\ \A n \in 1..Len(bridge.queue) : bridge'.queue[n] = bridge.queue[n]
      /\ Len(bridge.queue) \in Nat
  BY <1>1, <1>2, <1>4
<1>7. \A n \in 1..Len(bridge.queue) : bridge.queue[n] \in KCalls /\ bridge.queue[n] # c
  BY <1>1, <1>4 DEF KWinInv, WaitingRule, Pending
<1>8. \A d \in KCalls : Out(d) => d # c /\ Out(d)'
  BY <1>4, <1>5, <1>6 DEF Out, InQueue
<1>9. WaitingRule'
  <2>1. \A i, j \in 1..Len(bridge'.queue) : i # j => bridge'.queue[i] # bridge'.queue[j]
    <3>1. \A i, j \in 1..Len(bridge.queue) : i # j => bridge.queue[i] # bridge.queue[j]
      BY DEF KWinInv, WaitingRule, Distinct
    <3>. SUFFICES ASSUME NEW i \in 1..Len(bridge'.queue), NEW j \in 1..Len(bridge'.queue), i # j
                  PROVE  bridge'.queue[i] # bridge'.queue[j]
      OBVIOUS
    <3>2. (i \in 1..Len(bridge.queue) \/ i = Len(bridge.queue) + 1) /\ (j \in 1..Len(bridge.queue) \/ j = Len(bridge.queue) + 1)
      BY <1>6
    <3>3. CASE i \in 1..Len(bridge.queue) /\ j \in 1..Len(bridge.queue)
      <4>1. bridge'.queue[i] = bridge.queue[i] /\ bridge'.queue[j] = bridge.queue[j]
        BY <1>6, <3>3
      <4>. QED
        BY <3>1, <3>3, <4>1
    <3>4. CASE i \in 1..Len(bridge.queue) /\ j = Len(bridge.queue) + 1
      <4>1. bridge'.queue[i] = bridge.queue[i] /\ bridge'.queue[j] = c
        BY <1>6, <3>4
      <4>. QED
        BY <1>7, <3>4, <4>1
    <3>5. CASE i = Len(bridge.queue) + 1 /\ j \in 1..Len(bridge.queue)
      <4>1. bridge'.queue[i] = c /\ bridge'.queue[j] = bridge.queue[j]
        BY <1>6, <3>5
      <4>. QED
        BY <1>7, <3>5, <4>1
    <3>. QED
      BY <3>2, <3>3, <3>4, <3>5
  <2>2. \A n \in 1..Len(bridge'.queue) : kcall'[bridge'.queue[n]].at \in {"wait", "dropped"}
    <3>1. \A n \in 1..Len(bridge.queue) : kcall[bridge.queue[n]].at \in {"wait", "dropped"}
      BY DEF KWinInv, WaitingRule, Pending
    <3>. QED
      BY <1>5, <1>6, <1>7, <3>1
  <2>. QED
    BY <2>1, <2>2 DEF WaitingRule, Distinct, Pending
<1>10. HandRule' /\ RanRule'
  BY <1>4, <1>8 DEF KWinInv, HandRule, RanRule, InHand
<1>11. BusRule'
  <2>1. \A n \in 1..Len(bus) : bus[n] \in DoneMessages => bus[n].id \in KCalls
    BY DEF DoneMessages
  <2>. QED
    BY <1>4, <1>8, <2>1 DEF KWinInv, BusRule
<1>12. DoneRule'
  <2>1. DOMAIN bridge.done \subseteq KCalls
    BY <1>1 DEF Completions
  <2>. QED
    BY <1>2, <1>4, <1>8, <2>1 DEF KWinInv, DoneRule
<1>13. PendingRule' /\ OkRule'
  <2>1. bridge.pending \subseteq KCalls
    BY <1>1 DEF BridgeRecords
  <2>. QED
    BY <1>2, <1>4, <1>5, <2>1 DEF KWinInv, PendingRule, OkRule, Pending
<1>14. KWinTypes'
  BY <1>2, <1>4, <1>5 DEF KWinInv, KWinTypes
<1>. QED
  BY <1>9, <1>10, <1>11, <1>12, <1>13, <1>14 DEF KWinInv

LEMMA DropCallKeeps ==
  ASSUME KWinInv, NEW c \in KCalls, DropCall(c)
  PROVE  KWinInv'
<1>. DEFINE x == [kcall[c] EXCEPT !.at = "dropped"]
<1>1. kcall \in [KCalls -> KCallRecords] /\ kcall[c] \in KCallRecords /\ kcall[c].at = "wait"
  BY DEF DropCall, KWinInv, KWinTypes
<1>2. x \in KCallRecords /\ x.at = "dropped"
  BY <1>1 DEF KCallRecords
<1>3. kcall' = [kcall EXCEPT ![c] = x] /\ UNCHANGED <<bridge, script, bus, comp, overtaken>>
  BY <1>1 DEF DropCall
<1>. HIDE DEF x
<1>4. kcall' \in [KCalls -> KCallRecords] /\ kcall'[c].at = "dropped" /\ \A d \in KCalls : d # c => kcall'[d] = kcall[d]
  BY <1>1, <1>2, <1>3
<1>5. \A d \in KCalls : (Out(d) => Out(d)') /\ (Pending(d) => Pending(d)')
  BY <1>1, <1>3, <1>4 DEF Out, Pending
<1>6. bridge \in BridgeRecords /\ bridge.queue \in Seq(KCalls) /\ DOMAIN bridge.done \subseteq KCalls /\ bridge.pending \subseteq KCalls
  BY DEF KWinInv, KWinTypes, BridgeRecords, Completions
<1>7. WaitingRule' /\ PendingRule'
  <2>1. \A n \in 1..Len(bridge.queue) : bridge.queue[n] \in KCalls
    BY <1>6
  <2>2. Distinct(bridge.queue)'
    BY <1>3 DEF KWinInv, WaitingRule
  <2>. QED
    BY <1>3, <1>5, <1>6, <2>1, <2>2 DEF KWinInv, WaitingRule, PendingRule
<1>8. HandRule' /\ RanRule'
  BY <1>3, <1>5 DEF KWinInv, HandRule, RanRule, InHand
<1>9. BusRule'
  <2>1. \A n \in 1..Len(bus) : bus[n] \in DoneMessages => bus[n].id \in KCalls
    BY DEF DoneMessages
  <2>. QED
    BY <1>3, <1>5, <2>1 DEF KWinInv, BusRule
<1>10. DoneRule' /\ OkRule'
  BY <1>3, <1>4, <1>5, <1>6 DEF KWinInv, DoneRule, OkRule
<1>11. KWinTypes'
  BY <1>3, <1>4 DEF KWinInv, KWinTypes
<1>. QED
  BY <1>7, <1>8, <1>9, <1>10, <1>11 DEF KWinInv

LEMMA NextCommandKeeps ==
  ASSUME KWinInv, NEW s \in Scripts, NextCommand(s)
  PROVE  KWinInv'
<1>0. PICK c : c = Head(bridge.queue)
  OBVIOUS
<1>. DEFINE b == [bridge EXCEPT !.queue = Tail(@)]
            x == IF script[s].at = "poll" THEN [at |-> "run", id |-> c] ELSE [at |-> "off", id |-> None]
<1>1. bridge \in BridgeRecords /\ bridge.queue \in Seq(KCalls) /\ bridge.queue # <<>> /\ script \in [Scripts -> ScriptRecords]
  BY DEF NextCommand, KWinInv, KWinTypes, BridgeRecords
<1>2. b \in BridgeRecords /\ b.queue = Tail(bridge.queue) /\ b.pending = bridge.pending /\ b.done = bridge.done
  <2>1. Tail(bridge.queue) \in Seq(KCalls)
    BY <1>1
  <2>. QED
    BY <1>1, <2>1 DEF BridgeRecords
<1>3. c \in KCalls /\ c = bridge.queue[1]
  BY <1>0, <1>1
<1>4. x \in ScriptRecords /\ (x.at = "run" => x.id = c) /\ x.at \in {"run", "off"}
  BY <1>3 DEF ScriptRecords
<1>5. bridge' = b /\ script' = [script EXCEPT ![s] = x] /\ UNCHANGED <<kcall, bus, comp, overtaken>> /\ ~InHand(s)
  BY <1>0 DEF NextCommand, InHand
<1>. HIDE DEF b, x
<1>6. script' \in [Scripts -> ScriptRecords] /\ script'[s] = x /\ \A t \in Scripts : t # s => script'[t] = script[t]
  BY <1>1, <1>4, <1>5
<1>7. /\ Len(bridge.queue) \in Nat \ {0} /\ Len(bridge'.queue) = Len(bridge.queue) - 1
      /\ \A n \in 1..(Len(bridge.queue) - 1) : bridge'.queue[n] = bridge.queue[n + 1]
  <2>. DEFINE q == bridge.queue
  <2>1. q \in Seq(KCalls) /\ q # <<>> /\ bridge'.queue = Tail(q)
    BY <1>1, <1>2, <1>5
  <2>. HIDE DEF q
  <2>2. Len(q) \in Nat \ {0} /\ Len(Tail(q)) = Len(q) - 1 /\ \A n \in 1..(Len(q) - 1) : Tail(q)[n] = q[n + 1]
    BY <2>1
  <2>. QED
    BY <2>1, <2>2 DEF q
<1>8. (\A n \in 1..Len(bridge'.queue) : bridge'.queue[n] # c) /\ Distinct(bridge'.queue)
  <2>1. \A i, j \in 1..Len(bridge.queue) : i # j => bridge.queue[i] # bridge.queue[j]
    BY DEF KWinInv, WaitingRule, Distinct
  <2>3. \A i \in 1..Len(bridge'.queue) : i + 1 \in 1..Len(bridge.queue) /\ bridge'.queue[i] = bridge.queue[i + 1]
    BY <1>7
  <2>4. \A i, j \in 1..Len(bridge'.queue) : i # j => i + 1 # j + 1
    BY <1>7
  <2>5. \A i, j \in 1..Len(bridge'.queue) : i # j => bridge'.queue[i] # bridge'.queue[j]
    BY <2>1, <2>3, <2>4
  <2>6. \A i \in 1..Len(bridge'.queue) : i + 1 # 1 /\ 1 \in 1..Len(bridge.queue)
    BY <1>7
  <2>7. \A n \in 1..Len(bridge'.queue) : bridge'.queue[n] # c
    BY <1>3, <2>1, <2>3, <2>6
  <2>. QED
    BY <2>5, <2>7 DEF Distinct
<1>9. /\ \E n \in 1..Len(bridge.queue) : bridge.queue[n] = c
      /\ \A n \in 1..Len(bridge'.queue) : \E m \in 1..Len(bridge.queue) : bridge.queue[m] = bridge'.queue[n]
  <2>1. 1 \in 1..Len(bridge.queue) /\ \A n \in 1..(Len(bridge.queue) - 1) : n + 1 \in 1..Len(bridge.queue)
    BY <1>7
  <2>. QED
    BY <1>3, <1>7, <2>1
<1>10. kcall[c].at # "none" /\ ~Out(c) /\ Out(c)' /\ \A d \in KCalls : Out(d) => Out(d)'
  <2>1. kcall[c].at # "none"
    BY <1>3, <1>7 DEF KWinInv, WaitingRule, Pending
  <2>2. ~Out(c) /\ Out(c)'
    BY <1>5, <1>8, <1>9, <2>1 DEF Out, InQueue
  <2>3. ASSUME NEW d \in KCalls, Out(d)
        PROVE  Out(d)'
    BY <1>5, <1>9, <2>3 DEF Out, InQueue
  <2>. QED
    BY <2>1, <2>2, <2>3
<1>11. WaitingRule'
  <2>1. \A n \in 1..Len(bridge'.queue) : Pending(bridge'.queue[n])
    BY <1>7 DEF KWinInv, WaitingRule
  <2>. QED
    BY <1>5, <1>8, <2>1 DEF WaitingRule, Distinct, Pending
<1>12. comp.ran[c] = 0
  <2>1. comp.ran[c] \in 0..1
    BY <1>3 DEF KWinInv, KWinTypes, Compositors
  <2>. QED
    BY <1>3, <1>10, <2>1 DEF KWinInv, RanRule
<1>13. HandRule'
  <2>1. ASSUME NEW t \in Scripts, InHand(t)'
        PROVE  /\ script'[t].id \in KCalls /\ Out(script[t].id)' /\ comp.ran[script'[t].id] = 0
               /\ t # s => InHand(t) /\ script'[t].id = script[t].id /\ script[t].id # c
    <3>1. CASE t = s
      <4>1. script'[t].id = c
        BY <1>4, <1>6, <2>1, <3>1 DEF InHand
      <4>. QED
        BY <1>3, <1>10, <1>12, <3>1, <4>1 DEF Out
    <3>2. CASE t # s
      <4>1. script'[t] = script[t] /\ InHand(t)
        BY <1>6, <2>1, <3>2 DEF InHand
      <4>2. script[t].id \in KCalls /\ Out(script[t].id) /\ comp.ran[script[t].id] = 0
        BY <4>1 DEF KWinInv, HandRule
      <4>3. (Out(script[t].id))' /\ script[t].id # c
        BY <1>10, <4>1, <4>2 DEF Out
      <4>. QED
        BY <4>1, <4>2, <4>3
    <3>. QED
      BY <3>1, <3>2
  <2>2. \A t \in Scripts : InHand(t)' => script'[t].id \in KCalls /\ Out(script[t].id)' /\ comp'.ran[script'[t].id] = 0
    BY <1>5, <2>1
  <2>3. \A t, u \in Scripts : InHand(t)' /\ InHand(u)' /\ t # u => script'[t].id # script'[u].id
    BY <1>4, <1>6, <2>1 DEF KWinInv, HandRule, InHand
  <2>. QED
    BY <2>2, <2>3 DEF HandRule
<1>14. RanRule' /\ PendingRule' /\ OkRule'
  BY <1>2, <1>5, <1>10 DEF KWinInv, RanRule, PendingRule, OkRule, Pending
<1>15. BusRule'
  <2>1. \A n \in 1..Len(bus) : bus[n] \in DoneMessages => bus[n].id \in KCalls
    BY DEF DoneMessages
  <2>. QED
    BY <1>5, <1>10, <2>1 DEF KWinInv, BusRule
<1>16. DoneRule'
  <2>1. DOMAIN bridge.done \subseteq KCalls
    BY <1>1 DEF BridgeRecords, Completions
  <2>. QED
    BY <1>2, <1>5, <1>10, <2>1 DEF KWinInv, DoneRule
<1>17. KWinTypes'
  BY <1>2, <1>5, <1>6 DEF KWinInv, KWinTypes
<1>. QED
  BY <1>11, <1>13, <1>14, <1>15, <1>16, <1>17 DEF KWinInv

\* A step that moves no command: the queue and the completions stay, no script gets a command, the bus only loses
\* completions.
LEMMA NothingMoves ==
  ASSUME KWinInv, UNCHANGED kcall,
         bridge' \in BridgeRecords, bridge'.queue = bridge.queue, bridge'.pending = bridge.pending, bridge'.done = bridge.done,
         comp' \in Compositors, comp'.ran = comp.ran, overtaken' \in BOOLEAN,
         script' \in [Scripts -> ScriptRecords],
         \A t \in Scripts : script'[t].at = "run" => script[t].at = "run" /\ script'[t].id = script[t].id,
         bus' \in Seq(SnapshotMessages \union DoneMessages),
         \A n \in 1..Len(bus') : bus'[n] \in DoneMessages => \E m \in 1..Len(bus) : bus[m] = bus'[n]
  PROVE  KWinInv'
<1>1. \A d \in KCalls : Out(d) => Out(d)'
  BY DEF Out, InQueue
<1>2. WaitingRule' /\ PendingRule' /\ OkRule' /\ RanRule'
  BY <1>1 DEF KWinInv, WaitingRule, PendingRule, OkRule, RanRule, Pending, Distinct
<1>3. HandRule'
  BY <1>1 DEF KWinInv, HandRule, InHand
<1>4. BusRule'
  <2>. SUFFICES ASSUME NEW n \in 1..Len(bus'), bus'[n] \in DoneMessages
                PROVE  Out(bus[n].id)' /\ (bus'[n].ok => comp'.ran[bus'[n].id] = 1)
    BY DEF BusRule
  <2>1. PICK m \in 1..Len(bus) : bus[m] = bus'[n]
    OBVIOUS
  <2>2. bus[m].id \in KCalls /\ Out(bus[m].id) /\ (bus[m].ok => comp.ran[bus[m].id] = 1)
    BY <2>1 DEF KWinInv, BusRule, DoneMessages
  <2>. QED
    BY <2>1, <2>2 DEF Out, InQueue
<1>5. DoneRule'
  <2>1. DOMAIN bridge.done \subseteq KCalls
    BY DEF KWinInv, KWinTypes, BridgeRecords, Completions
  <2>. QED
    BY <1>1, <2>1 DEF KWinInv, DoneRule
<1>6. KWinTypes'
  BY DEF KWinInv, KWinTypes
<1>. QED
  BY <1>2, <1>3, <1>4, <1>5, <1>6 DEF KWinInv

LEMMA KWinShape ==
  ASSUME KWinInv
  PROVE  /\ kcall \in [KCalls -> KCallRecords] /\ script \in [Scripts -> ScriptRecords]
         /\ bridge \in BridgeRecords /\ comp \in Compositors /\ comp.version \in 0..MaxVersion
         /\ comp.ran \in [KCalls -> 0..1] /\ comp.stops \in 0..MaxStops
         /\ bus \in Seq(SnapshotMessages \union DoneMessages) /\ overtaken \in BOOLEAN
         /\ MaxVersion \in Nat /\ MaxStops \in Nat /\ IsFiniteSet(Scripts)
         /\ bridge.done \in Completions /\ DOMAIN bridge.done \subseteq KCalls /\ bridge.pending \subseteq KCalls
         /\ bridge.queue \in Seq(KCalls)
BY KWinAssumption DEF KWinInv, KWinTypes, Compositors, BridgeRecords, Completions

LEMMA SnapshotIsNoCompletion ==
  ASSUME NEW v \in 0..MaxVersion
  PROVE  Snapshot(v) \in SnapshotMessages /\ Snapshot(v) \notin DoneMessages
BY DEF Snapshot, SnapshotMessages, DoneMessages

LEMMA StartScriptKeeps ==
  ASSUME KWinInv, NEW s \in Scripts, StartScript(s)
  PROVE  KWinInv'
<1>. DEFINE x == [script[s] EXCEPT !.at = "poll"]
<1>1. UNCHANGED <<kcall, bridge, comp, overtaken>> /\ script' = [script EXCEPT ![s] = x] /\ bus' = Append(bus, Snapshot(comp.version))
  BY DEF StartScript
<1>2. x \in ScriptRecords /\ x.at = "poll"
  BY KWinShape DEF ScriptRecords
<1>. HIDE DEF x
<1>3. /\ script' \in [Scripts -> ScriptRecords]
      /\ \A t \in Scripts : script'[t].at = "run" => script[t].at = "run" /\ script'[t].id = script[t].id
  BY <1>1, <1>2, KWinShape
<1>4. /\ bus' \in Seq(SnapshotMessages \union DoneMessages)
      /\ \A n \in 1..Len(bus') : bus'[n] \in DoneMessages => \E m \in 1..Len(bus) : bus[m] = bus'[n]
  <2>1. Snapshot(comp.version) \in SnapshotMessages \union DoneMessages /\ Snapshot(comp.version) \notin DoneMessages
    BY KWinShape, SnapshotIsNoCompletion
  <2>. QED
    BY <1>1, <2>1, KWinShape
<1>. QED
  BY <1>1, <1>3, <1>4, KWinShape, NothingMoves

LEMMA StopScriptKeeps ==
  ASSUME KWinInv, NEW s \in Scripts, StopScript(s) \/ PollExpires(s)
  PROVE  KWinInv'
<1>1. PICK x \in ScriptRecords : script' = [script EXCEPT ![s] = x] /\ x.at # "run"
  <2>1. CASE StopScript(s)
    <3>1. [at |-> IF script[s].at = "poll" THEN "stale" ELSE "off", id |-> None] \in ScriptRecords
      BY DEF ScriptRecords
    <3>. QED
      BY <2>1, <3>1 DEF StopScript
  <2>2. CASE PollExpires(s)
    <3>1. script[s] \in ScriptRecords
      BY KWinShape
    <3>2. [script[s] EXCEPT !.at = "off"] \in ScriptRecords /\ [script[s] EXCEPT !.at = "off"].at = "off"
      BY <3>1 DEF ScriptRecords
    <3>. QED
      BY <2>2, <3>2 DEF PollExpires
  <2>. QED
    BY <2>1, <2>2
<1>2. UNCHANGED <<kcall, bridge, bus, overtaken>>
  BY DEF StopScript, PollExpires
<1>3. comp' \in Compositors /\ comp'.ran = comp.ran
  <2>1. CASE StopScript(s)
    <3>1. comp.stops + 1 \in 0..MaxStops /\ comp' = [comp EXCEPT !.stops = comp.stops + 1]
      BY <2>1, KWinShape DEF StopScript
    <3>. QED
      BY <3>1, KWinShape DEF Compositors
  <2>2. CASE PollExpires(s)
    BY <2>2, KWinShape DEF PollExpires
  <2>. QED
    BY <2>1, <2>2
<1>4. /\ script' \in [Scripts -> ScriptRecords]
      /\ \A t \in Scripts : script'[t].at = "run" => script[t].at = "run" /\ script'[t].id = script[t].id
  BY <1>1, KWinShape
<1>. QED
  BY <1>2, <1>3, <1>4, KWinShape, NothingMoves

LEMMA CompositorKeeps ==
  ASSUME KWinInv, CompositorChanges \/ CursorMoves
  PROVE  KWinInv'
<1>1. UNCHANGED <<kcall, bridge, script, overtaken>>
  BY DEF CompositorChanges, CursorMoves
<1>2. comp.version + 1 \in 0..MaxVersion /\ comp' = [comp EXCEPT !.version = comp.version + 1]
  BY KWinShape DEF CompositorChanges, CursorMoves
<1>3. comp' \in Compositors /\ comp'.ran = comp.ran
  BY <1>2, KWinShape DEF Compositors
<1>4. /\ bus' \in Seq(SnapshotMessages \union DoneMessages)
      /\ \A n \in 1..Len(bus') : bus'[n] \in DoneMessages => \E m \in 1..Len(bus) : bus[m] = bus'[n]
  <2>1. CASE CompositorChanges
    <3>. DEFINE told == Snapshot(comp.version + 1)
                more == [i \in 1..Cardinality(On) |-> told]
    <3>1. Cardinality(On) \in Nat
      <4>1. On \subseteq Scripts
        BY DEF On
      <4>. QED
        BY <4>1, KWinShape, FS_Subset, FS_CardinalityType
    <3>2. told \in SnapshotMessages \union DoneMessages /\ told \notin DoneMessages
      BY <1>2, SnapshotIsNoCompletion
    <3>3. bus' = bus \o more
      BY <2>1 DEF CompositorChanges
    <3>. HIDE DEF told
    <3>4. more \in Seq(SnapshotMessages \union DoneMessages) /\ \A i \in 1..Len(more) : more[i] = told
      BY <3>1, <3>2
    <3>. HIDE DEF more
    <3>5. /\ bus \o more \in Seq(SnapshotMessages \union DoneMessages)
          /\ Len(bus \o more) = Len(bus) + Len(more)
          /\ \A i \in 1 .. Len(bus) + Len(more) : (bus \o more)[i] = IF i <= Len(bus) THEN bus[i] ELSE more[i - Len(bus)]
      BY <3>4, KWinShape, ConcatProperties
    <3>6. Len(bus) \in Nat /\ Len(more) \in Nat
      BY <3>4, KWinShape
    <3>7. ASSUME NEW n \in 1..Len(bus'), bus'[n] \in DoneMessages
          PROVE  \E m \in 1..Len(bus) : bus[m] = bus'[n]
      <4>1. n \in 1..(Len(bus) + Len(more)) /\ (n <= Len(bus) \/ n - Len(bus) \in 1..Len(more))
        BY <3>3, <3>5, <3>6
      <4>. QED
        BY <3>2, <3>3, <3>4, <3>5, <3>6, <3>7, <4>1
    <3>. QED
      BY <3>3, <3>5, <3>7
  <2>2. CASE CursorMoves
    BY <2>2, KWinShape DEF CursorMoves
  <2>. QED
    BY <2>1, <2>2
<1>. QED
  BY <1>1, <1>3, <1>4, KWinShape, NothingMoves

\* The daemon handles a message.
LEMMA HandleKeeps ==
  ASSUME KWinInv, NEW n \in DOMAIN bus, Handle(n)
  PROVE  KWinInv'
<1>0. n \in 1..Len(bus) /\ bus[n] \in SnapshotMessages \union DoneMessages
  BY KWinShape
<1>1. UNCHANGED <<kcall, script, comp>> /\ bus' = RemoveAt(bus, n) /\ overtaken' \in BOOLEAN
  BY KWinShape DEF Handle
<1>2. /\ bus' \in Seq(SnapshotMessages \union DoneMessages)
      /\ \A i \in 1..Len(bus') : \E m \in 1..Len(bus) : bus[m] = bus'[i]
  <2>1. /\ RemoveAt(bus, n) \in Seq(SnapshotMessages \union DoneMessages) /\ Len(RemoveAt(bus, n)) = Len(bus) - 1
        /\ \A i \in 1..(Len(bus) - 1) : RemoveAt(bus, n)[i] = bus[IF i < n THEN i ELSE i + 1]
    BY <1>0, KWinShape, Removed
  <2>2. \A i \in 1..(Len(bus) - 1) : (IF i < n THEN i ELSE i + 1) \in 1..Len(bus)
    BY <1>0, KWinShape
  <2>. QED
    BY <1>1, <2>1, <2>2
<1>3. CASE bridge' \in BridgeRecords /\ bridge'.queue = bridge.queue /\ bridge'.pending = bridge.pending /\ bridge'.done = bridge.done
  BY <1>1, <1>2, <1>3, KWinShape, NothingMoves
<1>4. CASE bus[n].kind = "snapshot"
  <2>1. bus[n].version \in 0..MaxVersion /\ bridge' = [bridge EXCEPT !.latest = bus[n].version]
    BY <1>0, <1>4 DEF SnapshotMessages, DoneMessages, Handle
  <2>2. bridge' \in BridgeRecords /\ bridge'.queue = bridge.queue /\ bridge'.pending = bridge.pending /\ bridge'.done = bridge.done
    BY <2>1, KWinShape DEF BridgeRecords
  <2>. QED
    BY <1>3, <2>2
<1>5. CASE bus[n].kind # "snapshot" /\ bus[n].id \notin bridge.pending
  BY <1>3, <1>5, KWinShape DEF Handle, Completed
<1>6. CASE bus[n].kind # "snapshot" /\ bus[n].id \in bridge.pending
  <2>1. PICK m : m = bus[n]
    OBVIOUS
  <2>2. m \in DoneMessages /\ m.id \in KCalls /\ m.ok \in BOOLEAN /\ m.id \in bridge.pending
    BY <1>0, <1>6, <2>1 DEF SnapshotMessages, DoneMessages
  <2>3. Out(m.id) /\ (m.ok => comp.ran[m.id] = 1)
    BY <1>0, <2>1, <2>2 DEF KWinInv, BusRule
  <2>. DEFINE f == [d \in DOMAIN bridge.done \union {m.id} |-> IF d = m.id THEN m.ok ELSE bridge.done[d]]
              b == [bridge EXCEPT !.done = f]
  <2>4. bridge' = b
    BY <1>6, <2>1 DEF Handle, Completed
  <2>5. f \in Completions
    <3>1. f \in [DOMAIN bridge.done \union {m.id} -> BOOLEAN]
      BY <2>2, KWinShape DEF Completions
    <3>2. DOMAIN bridge.done \union {m.id} \in SUBSET KCalls
      BY <2>2, KWinShape
    <3>. QED
      BY <3>1, <3>2 DEF Completions
  <2>6. DOMAIN f = DOMAIN bridge.done \union {m.id} /\ \A d \in DOMAIN f : f[d] = IF d = m.id THEN m.ok ELSE bridge.done[d]
    OBVIOUS
  <2>. HIDE DEF f
  <2>7. b \in BridgeRecords /\ b.queue = bridge.queue /\ b.pending = bridge.pending /\ b.done = f
    BY <2>5, KWinShape DEF BridgeRecords
  <2>. HIDE DEF b
  <2>8. \A d \in KCalls : Out(d) => Out(d)'
    BY <1>1, <2>4, <2>7 DEF Out, InQueue
  <2>9. WaitingRule' /\ PendingRule' /\ OkRule' /\ RanRule'
    BY <1>1, <2>4, <2>7, <2>8 DEF KWinInv, WaitingRule, PendingRule, OkRule, RanRule, Pending, Distinct
  <2>10. HandRule'
    BY <1>1, <2>8 DEF KWinInv, HandRule, InHand
  <2>11. BusRule'
    <3>. SUFFICES ASSUME NEW i \in 1..Len(bus'), bus'[i] \in DoneMessages
                  PROVE  Out(bus[i].id)' /\ (bus'[i].ok => comp'.ran[bus'[i].id] = 1)
      BY DEF BusRule
    <3>1. PICK k \in 1..Len(bus) : bus[k] = bus'[i]
      BY <1>2
    <3>2. bus[k].id \in KCalls /\ Out(bus[k].id) /\ (bus[k].ok => comp.ran[bus[k].id] = 1)
      BY <3>1 DEF KWinInv, BusRule, DoneMessages
    <3>. QED
      BY <1>1, <2>4, <2>7, <3>1, <3>2 DEF Out, InQueue
  <2>12. DoneRule'
    <3>. SUFFICES ASSUME NEW d \in DOMAIN f PROVE d \in bridge.pending /\ Out(d)' /\ (f[d] => comp.ran[d] = 1)
      BY <1>1, <2>4, <2>7 DEF DoneRule
    <3>1. CASE d = m.id
      BY <2>2, <2>3, <2>6, <2>8, <3>1
    <3>2. CASE d # m.id
      BY <2>6, <2>8, <3>2, KWinShape DEF KWinInv, DoneRule
    <3>. QED
      BY <3>1, <3>2
  <2>13. KWinTypes'
    BY <1>1, <1>2, <2>4, <2>7 DEF KWinInv, KWinTypes
  <2>. QED
    BY <2>9, <2>10, <2>11, <2>12, <2>13 DEF KWinInv
<1>. QED
  BY <1>4, <1>5, <1>6

\* What two messages at the end of the bus make of it.
LEMMA BusOf ==
  ASSUME NEW S, NEW q \in Seq(S), NEW a \in Seq(S)
  PROVE  /\ q \o a \in Seq(S) /\ Len(q \o a) = Len(q) + Len(a)
         /\ \A n \in 1..Len(q) : (q \o a)[n] = q[n]
         /\ \A n \in 1..Len(a) : (q \o a)[Len(q) + n] = a[n]
         /\ \A n \in 1..Len(q \o a) : n \in 1..Len(q) \/ \E k \in 1..Len(a) : n = Len(q) + k
<1>1. /\ q \o a \in Seq(S) /\ Len(q \o a) = Len(q) + Len(a)
      /\ \A n \in 1..(Len(q) + Len(a)) : (q \o a)[n] = IF n <= Len(q) THEN q[n] ELSE a[n - Len(q)]
  BY ConcatProperties
<1>2. Len(q) \in Nat /\ Len(a) \in Nat
  OBVIOUS
<1>3. \A n \in 1..Len(a) : Len(q) + n \in 1..(Len(q) + Len(a)) /\ ~(Len(q) + n <= Len(q)) /\ (Len(q) + n) - Len(q) = n
  BY <1>2
<1>4. \A n \in 1..(Len(q) + Len(a)) : n \in 1..Len(q) \/ (n - Len(q) \in 1..Len(a) /\ n = Len(q) + (n - Len(q)))
  BY <1>2
<1>. QED
  BY <1>1, <1>2, <1>3, <1>4

LEMMA OneOrTwo ==
  ASSUME NEW S, NEW x \in S, NEW y \in S
  PROVE  /\ <<x>> \in Seq(S) /\ Len(<<x>>) = 1 /\ <<x>>[1] = x
         /\ <<x, y>> \in Seq(S) /\ Len(<<x, y>>) = 2 /\ <<x, y>>[1] = x /\ <<x, y>>[2] = y
OBVIOUS

\* The script carries its command out, or says it cannot.
LEMMA RunKeeps ==
  ASSUME KWinInv, NEW s \in Scripts, RunCommand(s)
  PROVE  KWinInv'
<1>0. PICK c : c = script[s].id
  OBVIOUS
<1>1. /\ c \in KCalls /\ InHand(s) /\ Out(c) /\ comp.ran[c] = 0
      /\ UNCHANGED <<kcall, bridge, overtaken>>
      /\ script' = [script EXCEPT ![s] = [at |-> "poll", id |-> None]]
  BY <1>0 DEF RunCommand, KWinInv, HandRule, InHand
<1>2. /\ script' \in [Scripts -> ScriptRecords] /\ script'[s].at = "poll"
      /\ \A t \in Scripts : t # s => script'[t] = script[t]
  <2>1. [at |-> "poll", id |-> None] \in ScriptRecords
    BY DEF ScriptRecords
  <2>. QED
    BY <1>1, <2>1, KWinShape
<1>3. \E ok \in BOOLEAN, a \in Seq(SnapshotMessages \union DoneMessages) :
        /\ bus' = bus \o a
        /\ \A k \in 1..Len(a) : a[k] \in DoneMessages => a[k].id = c /\ a[k].ok = ok
        /\ comp' \in Compositors
        /\ comp'.ran = IF ok THEN [comp.ran EXCEPT ![c] = 1] ELSE comp.ran
  <2>1. CASE bus' = bus \o <<Snapshot(comp'.version), Done(c, TRUE)>> /\
             comp' = [comp EXCEPT !.ran[c] = @ + 1,
                                  !.version = IF kcall[c].kind = "window" /\ @ < MaxVersion THEN @ + 1 ELSE @]
    <3>. DEFINE v == IF kcall[c].kind = "window" /\ comp.version < MaxVersion THEN comp.version + 1 ELSE comp.version
                r == [comp.ran EXCEPT ![c] = 1]
                a == <<Snapshot(comp'.version), Done(c, TRUE)>>
    <3>1. v \in 0..MaxVersion /\ r \in [KCalls -> 0..1]
      BY <1>1, KWinShape
    <3>2. comp' = [comp EXCEPT !.ran = r, !.version = v]
      BY <1>1, <2>1, KWinShape DEF Compositors
    <3>. HIDE DEF v
    <3>3. comp' \in Compositors /\ comp'.ran = r /\ comp'.version = v
      BY <3>1, <3>2, KWinShape DEF Compositors
    <3>4. Snapshot(comp'.version) \in SnapshotMessages /\ Snapshot(comp'.version) \notin DoneMessages
      BY <3>1, <3>3, SnapshotIsNoCompletion
    <3>5. Done(c, TRUE) \in DoneMessages /\ Done(c, TRUE).id = c /\ Done(c, TRUE).ok = TRUE
      BY <1>1 DEF Done, DoneMessages
    <3>6. a \in Seq(SnapshotMessages \union DoneMessages) /\ Len(a) = 2 /\ a[1] = Snapshot(comp'.version) /\ a[2] = Done(c, TRUE)
      <4>1. Snapshot(comp'.version) \in SnapshotMessages \union DoneMessages /\ Done(c, TRUE) \in SnapshotMessages \union DoneMessages
        BY <3>4, <3>5
      <4>. QED
        BY <4>1, OneOrTwo
    <3>7. bus' = bus \o a
      BY <2>1
    <3>. HIDE DEF a
    <3>8. \A k \in 1..Len(a) : a[k] \in DoneMessages => a[k].id = c /\ a[k].ok = TRUE
      <4>1. \A k \in 1..Len(a) : k = 1 \/ k = 2
        BY <3>6
      <4>. QED
        BY <3>4, <3>5, <3>6, <4>1
    <3>. QED
      BY <3>3, <3>6, <3>7, <3>8
  <2>2. CASE bus' = Append(bus, Done(c, FALSE)) /\ UNCHANGED comp
    <3>. DEFINE a == <<Done(c, FALSE)>>
    <3>1. Done(c, FALSE) \in DoneMessages /\ Done(c, FALSE).id = c /\ Done(c, FALSE).ok = FALSE
      BY <1>1 DEF Done, DoneMessages
    <3>2. a \in Seq(SnapshotMessages \union DoneMessages) /\ Len(a) = 1 /\ a[1] = Done(c, FALSE)
      <4>1. Done(c, FALSE) \in SnapshotMessages \union DoneMessages
        BY <3>1
      <4>. QED
        BY <4>1, OneOrTwo
    <3>3. bus' = bus \o a
      <4>1. Done(c, FALSE) \in SnapshotMessages \union DoneMessages
        BY <3>1
      <4>. QED
        BY Zenon, <2>2, <4>1, KWinShape, AppendIsConcat
    <3>. HIDE DEF a
    <3>4. \A k \in 1..Len(a) : a[k].id = c /\ a[k].ok = FALSE
      <4>1. \A k \in 1..Len(a) : k = 1
        BY <3>2
      <4>. QED
        BY <3>1, <3>2, <4>1
    <3>5. comp' \in Compositors /\ comp'.ran = comp.ran
      BY <2>2, KWinShape
    <3>. QED
      BY <3>2, <3>3, <3>4, <3>5
  <2>. QED
    BY <1>0, <2>1, <2>2 DEF RunCommand
<1>4. PICK ok \in BOOLEAN, a \in Seq(SnapshotMessages \union DoneMessages) :
        /\ bus' = bus \o a
        /\ \A k \in 1..Len(a) : a[k] \in DoneMessages => a[k].id = c /\ a[k].ok = ok
        /\ comp' \in Compositors
        /\ comp'.ran = IF ok THEN [comp.ran EXCEPT ![c] = 1] ELSE comp.ran
  BY <1>3
<1>5. /\ \A d \in KCalls : d # c => comp'.ran[d] = comp.ran[d]
      /\ comp'.ran[c] = IF ok THEN 1 ELSE 0
  BY <1>1, <1>4, KWinShape
<1>6. \A d \in KCalls : Out(d) => Out(d)'
  BY <1>1 DEF Out, InQueue
<1>7. WaitingRule' /\ PendingRule'
  BY <1>1 DEF KWinInv, WaitingRule, PendingRule, Pending, Distinct
<1>8. OkRule' /\ RanRule'
  BY <1>1, <1>5, <1>6 DEF KWinInv, OkRule, RanRule
<1>9. HandRule'
  <2>1. ASSUME NEW t \in Scripts, InHand(t)'
        PROVE  t # s /\ InHand(t) /\ script'[t] = script[t] /\ script[t].id # c /\ script[t].id \in KCalls
    BY <1>0, <1>1, <1>2, <2>1 DEF KWinInv, HandRule, InHand
  <2>2. \A t \in Scripts : InHand(t)' => script'[t].id \in KCalls /\ Out(script[t].id)' /\ comp'.ran[script'[t].id] = 0
    <3>. SUFFICES ASSUME NEW t \in Scripts, InHand(t)'
                  PROVE  script'[t].id \in KCalls /\ Out(script[t].id)' /\ comp'.ran[script'[t].id] = 0
      OBVIOUS
    <3>1. InHand(t) /\ script'[t] = script[t] /\ script[t].id # c /\ script[t].id \in KCalls
      BY <2>1
    <3>2. Out(script[t].id) /\ comp.ran[script[t].id] = 0
      BY <3>1 DEF KWinInv, HandRule
    <3>3. Out(script[t].id)'
      BY <1>1, <3>1, <3>2 DEF Out, InQueue
    <3>. QED
      BY <1>5, <3>1, <3>2, <3>3
  <2>3. \A t, u \in Scripts : InHand(t)' /\ InHand(u)' /\ t # u => script'[t].id # script'[u].id
    BY <2>1 DEF KWinInv, HandRule
  <2>. QED
    BY <2>2, <2>3 DEF HandRule
<1>10. BusRule'
  <2>. SUFFICES ASSUME NEW n \in 1..Len(bus'), bus'[n] \in DoneMessages
                PROVE  Out(bus[n].id)' /\ (bus'[n].ok => comp'.ran[bus'[n].id] = 1)
    BY DEF BusRule
  <2>1. n \in 1..Len(bus) \/ \E k \in 1..Len(a) : n = Len(bus) + k
    BY <1>4, KWinShape, BusOf
  <2>2. CASE n \in 1..Len(bus)
    <3>1. bus'[n] = bus[n]
      BY <1>4, <2>2, KWinShape, BusOf
    <3>2. bus[n].id \in KCalls /\ Out(bus[n].id) /\ (bus[n].ok => comp.ran[bus[n].id] = 1)
      BY <2>2, <3>1 DEF KWinInv, BusRule, DoneMessages
    <3>. QED
      BY <1>1, <1>5, <3>1, <3>2 DEF Out, InQueue
  <2>3. CASE \E k \in 1..Len(a) : n = Len(bus) + k
    <3>1. PICK k \in 1..Len(a) : n = Len(bus) + k
      BY <2>3
    <3>2. bus'[n] = a[k]
      BY <1>4, <3>1, KWinShape, BusOf
    <3>3. bus'[n].id = c /\ bus'[n].ok = ok
      BY <1>4, <3>2
    <3>. QED
      BY <1>1, <1>5, <3>3 DEF Out, InQueue
  <2>. QED
    BY <2>1, <2>2, <2>3
<1>11. DoneRule'
  <2>1. DOMAIN bridge.done \subseteq KCalls
    BY KWinShape
  <2>. QED
    BY <1>1, <1>5, <1>6, <2>1 DEF KWinInv, DoneRule
<1>12. KWinTypes'
  <2>1. bus' \in Seq(SnapshotMessages \union DoneMessages)
    BY <1>4, KWinShape, BusOf
  <2>. QED
    BY <1>1, <1>2, <1>4, <2>1 DEF KWinInv, KWinTypes
<1>. QED
  BY <1>7, <1>8, <1>9, <1>10, <1>11, <1>12 DEF KWinInv

\* Every step keeps the invariant.
LEMMA KWinKeeps ==
  ASSUME KWinInv, KWinNext
  PROVE  KWinInv'
BY CompletionKeeps, TimeOutKeeps, DropCallKeeps, QueueCommandKeeps, NextCommandKeeps, StartScriptKeeps, StopScriptKeeps,
   RunKeeps, HandleKeeps, CompositorKeeps DEF KWinNext

LEMMA KWinRests ==
  ASSUME KWinInv, UNCHANGED kwinVars
  PROVE  KWinInv'
BY DEF KWinInv, KWinTypes, WaitingRule, HandRule, RanRule, BusRule, DoneRule, PendingRule, OkRule, Out, InHand, InQueue,
       Pending, Distinct, kwinVars

\* What the bridge promises follows.
LEMMA KWinPromise ==
  ASSUME KWinInv
  PROVE  KWinTypeOK /\ OkMeansDoneOnce /\ NothingLeftBehind
<1>1. KWinTypeOK
  <2>1. kcall \in [KCalls -> [at: {"none", "wait", "ok", "failed", "timeout", "dropped"}, kind: Kinds, asked: 0..MaxVersion]]
    BY KWinShape DEF KCallRecords
  <2>2. script \in [Scripts -> [at: {"off", "poll", "stale", "run"}, id: KCalls \union {None}]]
    BY KWinShape DEF ScriptRecords
  <2>3. bridge.latest \in 0..MaxVersion /\ Range(bridge.queue) \subseteq KCalls
    BY KWinShape DEF BridgeRecords, Range
  <2>4. \A n \in DOMAIN bus : bus[n].kind \in {"snapshot", "done"}
    BY KWinShape DEF SnapshotMessages, DoneMessages
  <2>. QED
    BY <2>1, <2>2, <2>3, <2>4, KWinShape DEF KWinTypeOK
<1>2. OkMeansDoneOnce
  <2>1. \A c \in KCalls : comp.ran[c] \in 0..1
    BY KWinShape
  <2>. QED
    BY <2>1 DEF OkMeansDoneOnce, KWinInv, OkRule
<1>3. NothingLeftBehind
  <2>. SUFFICES ASSUME NEW c \in KCalls, kcall[c].at \in {"ok", "failed", "timeout"}
                PROVE  c \notin bridge.pending \union DOMAIN bridge.done /\ \A n \in DOMAIN bridge.queue : bridge.queue[n] # c
    BY DEF NothingLeftBehind
  <2>1. c \notin bridge.pending
    BY DEF KWinInv, PendingRule, Pending
  <2>2. c \notin DOMAIN bridge.done
    BY <2>1 DEF KWinInv, DoneRule
  <2>3. \A n \in 1..Len(bridge.queue) : bridge.queue[n] # c
    BY DEF KWinInv, WaitingRule, Pending
  <2>. QED
    BY <2>1, <2>2, <2>3, KWinShape
<1>. QED
  BY <1>1, <1>2, <1>3

(***************************************************************************)
(* Nothing old: as long as no message overtook another, the snapshots on   *)
(* the bus get newer, and before the completion of a refresh there is one  *)
(* as new as the refresh asked for, handled or still under way.            *)
(***************************************************************************)
Snap(n) == bus[n] \in SnapshotMessages
Refreshed(c) == kcall[c].kind = "snapshot"
AskedRule == \A c \in KCalls : kcall[c].asked <= comp.version
OrderRule ==
  /\ bridge.latest <= comp.version
  /\ \A n \in 1..Len(bus) : Snap(n) => bridge.latest <= bus[n].version /\ bus[n].version <= comp.version
  /\ \A m, n \in 1..Len(bus) : m < n /\ Snap(m) /\ Snap(n) => bus[m].version <= bus[n].version
PublishedRule ==
  \A n \in 1..Len(bus) : bus[n] \in DoneMessages /\ bus[n].ok /\ Refreshed(bus[n].id) =>
    bridge.latest >= kcall[bus[n].id].asked \/ \E m \in 1..Len(bus) : m < n /\ Snap(m) /\ bus[m].version >= kcall[bus[n].id].asked
AnsweredRule == \A c \in DOMAIN bridge.done : bridge.done[c] /\ Refreshed(c) => bridge.latest >= kcall[c].asked
FreshInv == AskedRule /\ (~overtaken => OrderRule /\ PublishedRule /\ AnsweredRule)

LEMMA FreshBegins ==
  ASSUME KWinInit
  PROVE  FreshInv
<1>1. Len(bus) = 0 /\ DOMAIN bridge.done = {} /\ bridge.latest = 0 /\ comp.version = 0
  BY DEF KWinInit
<1>2. AskedRule
  BY <1>1 DEF KWinInit, AskedRule
<1>. QED
  BY <1>1, <1>2 DEF FreshInv, OrderRule, PublishedRule, AnsweredRule

LEMMA FreshShape ==
  ASSUME KWinInv
  PROVE  /\ \A c \in KCalls : kcall[c].asked \in Nat
         /\ \A n \in 1..Len(bus) : /\ Snap(n) => bus[n].version \in Nat
                                   /\ bus[n] \in DoneMessages => bus[n].id \in KCalls /\ kcall[bus[n].id].at # "none" /\ bus[n].ok \in BOOLEAN
                                   /\ bus[n] \in SnapshotMessages \union DoneMessages
                                   /\ ~(Snap(n) /\ bus[n] \in DoneMessages)
         /\ comp.version \in Nat /\ bridge.latest \in Nat /\ Len(bus) \in Nat
         /\ \A c \in DOMAIN bridge.done : c \in KCalls /\ kcall[c].at # "none"
<1>1. \A c \in KCalls : kcall[c].asked \in Nat
  BY KWinShape DEF KCallRecords
<1>2. \A n \in 1..Len(bus) : bus[n] \in SnapshotMessages \union DoneMessages
  BY KWinShape
<1>3. \A n \in 1..Len(bus) : /\ Snap(n) => bus[n].version \in Nat
                             /\ bus[n] \in DoneMessages => bus[n].id \in KCalls /\ bus[n].ok \in BOOLEAN
                             /\ ~(Snap(n) /\ bus[n] \in DoneMessages)
  BY <1>2, KWinShape DEF Snap, SnapshotMessages, DoneMessages
<1>4. comp.version \in Nat /\ bridge.latest \in Nat /\ Len(bus) \in Nat
  BY KWinShape DEF BridgeRecords
<1>5. \A n \in 1..Len(bus) : bus[n] \in DoneMessages => kcall[bus[n].id].at # "none"
  BY DEF KWinInv, BusRule, Out
<1>6. \A c \in DOMAIN bridge.done : c \in KCalls /\ kcall[c].at # "none"
  BY KWinShape DEF KWinInv, DoneRule, Out
<1>. QED
  BY <1>1, <1>2, <1>3, <1>4, <1>5, <1>6

\* A step that leaves the messages, the latest snapshot and what was asked.
LEMMA FreshStays ==
  ASSUME KWinInv, FreshInv, UNCHANGED <<bus, overtaken>>, bridge'.latest = bridge.latest,
         DOMAIN bridge'.done \subseteq DOMAIN bridge.done, \A c \in DOMAIN bridge'.done : bridge'.done[c] = bridge.done[c],
         \A c \in KCalls : kcall[c].at # "none" => kcall'[c].kind = kcall[c].kind /\ kcall'[c].asked = kcall[c].asked,
         \A c \in KCalls : kcall'[c].asked = kcall[c].asked \/ kcall'[c].asked = comp.version,
         comp'.version \in Nat, comp'.version >= comp.version
  PROVE  FreshInv'
<1>1. AskedRule'
  BY FreshShape DEF FreshInv, AskedRule
<1>2. ASSUME ~overtaken PROVE OrderRule' /\ PublishedRule' /\ AnsweredRule'
  <2>1. OrderRule'
    BY <1>2, FreshShape DEF FreshInv, OrderRule, Snap
  <2>2. PublishedRule'
    BY <1>2, FreshShape DEF FreshInv, PublishedRule, Refreshed, Snap
  <2>3. AnsweredRule'
    BY <1>2, FreshShape DEF FreshInv, AnsweredRule, Refreshed
  <2>. QED
    BY <2>1, <2>2, <2>3
<1>. QED
  BY <1>1, <1>2 DEF FreshInv

\* Scripts send: snapshots of the state there is, and after one of them completions.
LEMMA FreshSent ==
  ASSUME KWinInv, FreshInv, UNCHANGED <<kcall, bridge, overtaken>>,
         NEW a \in Seq(SnapshotMessages \union DoneMessages), bus' = bus \o a,
         comp'.version \in Nat, comp'.version >= comp.version,
         \A k \in 1..Len(a) : a[k] \in SnapshotMessages => a[k].version = comp'.version,
         \A k \in 1..Len(a) : a[k] \in DoneMessages /\ a[k].ok =>
           \E j \in 1..Len(a) : j < k /\ a[j] \in SnapshotMessages
  PROVE  FreshInv'
<1>1. AskedRule'
  BY FreshShape DEF FreshInv, AskedRule
<1>2. /\ Len(bus) \in Nat /\ Len(a) \in Nat /\ Len(bus') = Len(bus) + Len(a)
      /\ \A n \in 1..Len(bus) : bus'[n] = bus[n]
      /\ \A n \in 1..Len(a) : bus'[Len(bus) + n] = a[n]
      /\ \A n \in 1..Len(bus') : n \in 1..Len(bus) \/ \E k \in 1..Len(a) : n = Len(bus) + k
  BY KWinShape, BusOf
<1>3. ASSUME ~overtaken PROVE OrderRule' /\ PublishedRule' /\ AnsweredRule'
  <2>0. OrderRule /\ PublishedRule /\ AnsweredRule
    BY <1>3 DEF FreshInv
  <2>1. ASSUME NEW n \in 1..Len(bus'), Snap(n)'
        PROVE  (n \in 1..Len(bus) /\ Snap(n) /\ bus'[n] = bus[n]) \/ (n > Len(bus) /\ bus'[n].version = comp'.version)
    <3>1. CASE n \in 1..Len(bus)
      BY <1>2, <2>1, <3>1 DEF Snap
    <3>2. CASE \E k \in 1..Len(a) : n = Len(bus) + k
      <4>1. PICK k \in 1..Len(a) : n = Len(bus) + k
        BY <3>2
      <4>2. bus'[n] = a[k] /\ n > Len(bus)
        BY <1>2, <4>1
      <4>. QED
        BY <2>1, <4>2 DEF Snap
    <3>. QED
      BY <1>2, <3>1, <3>2
  <2>2. \A n \in 1..Len(bus') : Snap(n)' => bridge.latest <= bus'[n].version /\ bus'[n].version <= comp'.version
    BY SMTT(20), <2>0, <2>1, FreshShape DEF OrderRule
  <2>3. \A m, n \in 1..Len(bus') : m < n /\ Snap(m)' /\ Snap(n)' => bus'[m].version <= bus'[n].version
    <3>. SUFFICES ASSUME NEW m \in 1..Len(bus'), NEW n \in 1..Len(bus'), m < n, Snap(m)', Snap(n)'
                  PROVE  bus'[m].version <= bus'[n].version
      OBVIOUS
    <3>1. CASE n \in 1..Len(bus) /\ Snap(n) /\ bus'[n] = bus[n]
      <4>1. m \in 1..Len(bus) /\ Snap(m) /\ bus'[m] = bus[m]
        BY <1>2, <2>1, <3>1
      <4>. QED
        BY <2>0, <3>1, <4>1 DEF OrderRule
    <3>2. CASE bus'[n].version = comp'.version
      BY <2>2, <3>2
    <3>. QED
      BY <2>1, <3>1, <3>2
  <2>4. OrderRule'
    <3>1. bridge'.latest <= comp'.version
      BY <2>0, FreshShape DEF OrderRule
    <3>. QED
      BY <2>2, <2>3, <3>1 DEF OrderRule
  <2>5. PublishedRule'
    <3>. SUFFICES ASSUME NEW n \in 1..Len(bus'), bus'[n] \in DoneMessages, bus'[n].ok, kcall[bus'[n].id].kind = "snapshot"
                  PROVE  bridge.latest >= kcall[bus'[n].id].asked
                         \/ \E m \in 1..Len(bus') : m < n /\ bus'[m] \in SnapshotMessages /\ bus'[m].version >= kcall[bus'[n].id].asked
      BY DEF PublishedRule, Refreshed, Snap
    <3>1. CASE n \in 1..Len(bus)
      <4>1. bus'[n] = bus[n]
        BY <1>2, <3>1
      <4>2. bridge.latest >= kcall[bus[n].id].asked
            \/ \E m \in 1..Len(bus) : m < n /\ bus[m] \in SnapshotMessages /\ bus[m].version >= kcall[bus[n].id].asked
        BY <2>0, <3>1, <4>1 DEF PublishedRule, Refreshed, Snap
      <4>3. \A m \in 1..Len(bus) : m \in 1..Len(bus') /\ bus'[m] = bus[m]
        BY <1>2
      <4>. QED
        BY <4>1, <4>2, <4>3
    <3>2. CASE \E k \in 1..Len(a) : n = Len(bus) + k
      <4>1. PICK k \in 1..Len(a) : n = Len(bus) + k
        BY <3>2
      <4>2. bus'[n] = a[k]
        BY <1>2, <4>1
      <4>3. PICK j \in 1..Len(a) : j < k /\ a[j] \in SnapshotMessages
        BY <4>2
      <4>4. Len(bus) + j \in 1..Len(bus') /\ Len(bus) + j < n /\ bus'[Len(bus) + j] = a[j]
        BY <1>2, <4>1, <4>3
      <4>5. a[k].id \in KCalls
        BY <4>2 DEF DoneMessages
      <4>6. kcall[a[k].id].asked \in Nat /\ kcall[a[k].id].asked <= comp.version /\ comp.version \in Nat
        BY <4>5, FreshShape DEF FreshInv, AskedRule
      <4>7. bus'[Len(bus) + j].version >= kcall[bus'[n].id].asked
        <5>1. a[j].version = comp'.version
          BY <4>3
        <5>2. comp'.version >= kcall[a[k].id].asked
          BY SMTT(20), <4>6
        <5>. QED
          BY <4>2, <4>4, <5>1, <5>2
      <4>. QED
        BY <4>3, <4>4, <4>7
    <3>. QED
      BY <1>2, <3>1, <3>2
  <2>6. AnsweredRule'
    BY <2>0 DEF AnsweredRule, Refreshed
  <2>. QED
    BY <2>4, <2>5, <2>6
<1>. QED
  BY <1>1, <1>3 DEF FreshInv

\* The oldest message is handled.
LEMMA FreshHandled ==
  ASSUME KWinInv, FreshInv, NEW n \in DOMAIN bus, Handle(n)
  PROVE  FreshInv'
<1>0. n \in 1..Len(bus) /\ Len(bus) \in Nat
  BY KWinShape
<1>1. UNCHANGED <<kcall, script, comp>> /\ bus' = RemoveAt(bus, n) /\ overtaken' = (overtaken \/ n # 1)
  BY DEF Handle
<1>2. AskedRule'
  BY <1>1 DEF FreshInv, AskedRule
<1>3. ASSUME ~overtaken' PROVE OrderRule' /\ PublishedRule' /\ AnsweredRule'
  <2>0. n = 1 /\ ~overtaken /\ OrderRule /\ PublishedRule /\ AnsweredRule
    BY <1>1, <1>3 DEF FreshInv
  <2>1. Len(bus') = Len(bus) - 1 /\ \A i \in 1..Len(bus') : i + 1 \in 1..Len(bus) /\ bus'[i] = bus[i + 1]
    <3>1. Len(RemoveAt(bus, n)) = Len(bus) - 1 /\ \A i \in 1..(Len(bus) - 1) : RemoveAt(bus, n)[i] = bus[IF i < n THEN i ELSE i + 1]
      BY <1>0, KWinShape, Removed
    <3>. QED
      BY <1>0, <1>1, <2>0, <3>1
  <2>2. /\ bridge.latest \in Nat /\ bridge'.latest \in Nat /\ bridge'.latest >= bridge.latest
        /\ bridge'.latest <= comp.version
        /\ Snap(1) => bridge'.latest = bus[1].version
        /\ ~Snap(1) => bridge'.latest = bridge.latest
    <3>1. CASE Snap(1)
      <4>1. bridge' = [bridge EXCEPT !.latest = bus[1].version]
        BY <2>0, <3>1 DEF Handle, Snap, SnapshotMessages
      <4>2. bridge'.latest = bus[1].version
        BY <4>1, KWinShape DEF BridgeRecords
      <4>. QED
        BY <1>0, <2>0, <3>1, <4>2, FreshShape DEF OrderRule
    <3>2. CASE ~Snap(1)
      <4>1. bus[1] \in DoneMessages
        BY <1>0, <2>0, <3>2, FreshShape DEF Snap
      <4>2. bridge' = Completed(bus[1])
        BY <2>0, <4>1 DEF Handle, DoneMessages
      <4>3. bridge'.latest = bridge.latest
        BY <4>2, KWinShape DEF Completed, BridgeRecords
      <4>. QED
        BY <2>0, <3>2, <4>3, FreshShape DEF OrderRule
    <3>. QED
      BY <3>1, <3>2
  <2>3. OrderRule'
    <3>1. \A i \in 1..Len(bus') : Snap(i)' => Snap(i + 1)
      BY <2>1 DEF Snap
    <3>2. \A i \in 1..Len(bus') : Snap(i)' => bridge'.latest <= bus'[i].version /\ bus'[i].version <= comp.version
      <4>. SUFFICES ASSUME NEW i \in 1..Len(bus'), Snap(i)'
                    PROVE  bridge'.latest <= bus'[i].version /\ bus'[i].version <= comp.version
        OBVIOUS
      <4>1. i + 1 \in 1..Len(bus) /\ Snap(i + 1) /\ bus'[i] = bus[i + 1] /\ 1 \in 1..Len(bus) /\ 1 < i + 1
        BY <1>0, <2>1, <3>1
      <4>2. bridge.latest <= bus[i + 1].version /\ bus[i + 1].version <= comp.version
        BY <2>0, <4>1 DEF OrderRule
      <4>3. Snap(1) => bus[1].version <= bus[i + 1].version
        BY <2>0, <4>1 DEF OrderRule
      <4>. QED
        BY <2>2, <4>1, <4>2, <4>3
    <3>3. \A i, j \in 1..Len(bus') : i < j /\ Snap(i)' /\ Snap(j)' => bus'[i].version <= bus'[j].version
      <4>1. \A i, j \in 1..Len(bus') : i < j => i + 1 < j + 1
        BY <2>1
      <4>. QED
        BY <2>0, <2>1, <3>1, <4>1 DEF OrderRule
    <3>4. bridge'.latest <= comp'.version
      BY <1>1, <2>2
    <3>. QED
      BY <1>1, <3>2, <3>3, <3>4 DEF OrderRule
  <2>4. PublishedRule'
    <3>. SUFFICES ASSUME NEW i \in 1..Len(bus'), bus'[i] \in DoneMessages, bus'[i].ok, kcall[bus'[i].id].kind = "snapshot"
                  PROVE  bridge'.latest >= kcall[bus'[i].id].asked
                         \/ \E m \in 1..Len(bus') : m < i /\ bus'[m] \in SnapshotMessages /\ bus'[m].version >= kcall[bus'[i].id].asked
      BY <1>1 DEF PublishedRule, Refreshed, Snap
    <3>1. i + 1 \in 1..Len(bus) /\ bus'[i] = bus[i + 1] /\ i \in Nat
      BY <2>1
    <3>2. kcall[bus[i + 1].id].asked \in Nat
      BY <3>1, FreshShape
    <3>3. CASE bridge.latest >= kcall[bus[i + 1].id].asked
      BY <2>2, <3>1, <3>2, <3>3
    <3>4. CASE \E m \in 1..Len(bus) : m < i + 1 /\ Snap(m) /\ bus[m].version >= kcall[bus[i + 1].id].asked
      <4>1. PICK m \in 1..Len(bus) : m < i + 1 /\ Snap(m) /\ bus[m].version >= kcall[bus[i + 1].id].asked
        BY <3>4
      <4>2. CASE m = 1
        BY <2>2, <3>1, <4>1, <4>2
      <4>3. CASE m # 1
        <5>1. m - 1 \in 1..Len(bus') /\ (m - 1) + 1 = m /\ m - 1 < i
          BY <1>0, <2>1, <3>1, <4>1, <4>3
        <5>2. bus'[m - 1] = bus[m]
          BY <2>1, <5>1
        <5>. QED
          BY <3>1, <4>1, <5>1, <5>2 DEF Snap
      <4>. QED
        BY <4>2, <4>3
    <3>. QED
      BY <2>0, <3>1, <3>3, <3>4 DEF PublishedRule, Refreshed
  <2>5. AnsweredRule'
    <3>. SUFFICES ASSUME NEW c \in DOMAIN bridge'.done, bridge'.done[c], kcall[c].kind = "snapshot"
                  PROVE  bridge'.latest >= kcall[c].asked
      BY <1>1 DEF AnsweredRule, Refreshed
    <3>1. CASE c \in DOMAIN bridge.done /\ bridge.done[c]
      BY <2>0, <2>2, <3>1, FreshShape DEF AnsweredRule, Refreshed
    <3>2. CASE ~(c \in DOMAIN bridge.done /\ bridge.done[c])
      <4>1. bus[1] \in DoneMessages /\ ~Snap(1)
        <5>1. CASE Snap(1)
          <6>1. bridge' = [bridge EXCEPT !.latest = bus[1].version]
            BY <2>0, <5>1 DEF Handle, Snap, SnapshotMessages
          <6>2. bridge'.done = bridge.done
            BY <6>1, KWinShape DEF BridgeRecords
          <6>. QED
            BY <3>2, <6>2
        <5>. QED
          BY <1>0, <2>0, <5>1, FreshShape DEF Snap
      <4>2. bridge' = Completed(bus[1])
        BY <2>0, <4>1 DEF Handle, DoneMessages
      <4>. DEFINE f == [d \in DOMAIN bridge.done \union {bus[1].id} |-> IF d = bus[1].id THEN bus[1].ok ELSE bridge.done[d]]
      <4>3. bridge'.done = f \/ bridge'.done = bridge.done
        BY <4>2, KWinShape DEF Completed, BridgeRecords
      <4>4. c = bus[1].id /\ bus[1].ok
        BY <3>2, <4>3
      <4>5. bridge.latest >= kcall[c].asked \/ \E m \in 1..Len(bus) : m < 1 /\ Snap(m) /\ bus[m].version >= kcall[c].asked
        BY <1>0, <2>0, <4>1, <4>4 DEF PublishedRule, Refreshed
      <4>6. bridge.latest >= kcall[c].asked
        BY <1>0, <4>5
      <4>. QED
        BY <2>2, <4>1, <4>6
    <3>. QED
      BY <3>1, <3>2
  <2>. QED
    BY <2>3, <2>4, <2>5
<1>. QED
  BY <1>2, <1>3 DEF FreshInv

LEMMA FreshKeeps ==
  ASSUME KWinInv, FreshInv, KWinNext
  PROVE  FreshInv'
<1>0. comp.version \in Nat /\ kcall \in [KCalls -> KCallRecords] /\ bridge \in BridgeRecords
  BY FreshShape, KWinShape
<1>1. ASSUME NEW c \in KCalls, Completion(c) \/ TimeOut(c) \/ DropCall(c)
      PROVE  FreshInv'
  <2>1. UNCHANGED <<script, bus, comp, overtaken>>
    BY <1>1 DEF Completion, TimeOut, DropCall
  <2>2. bridge'.latest = bridge.latest
    BY <1>0, <1>1 DEF Completion, TimeOut, DropCall, BridgeRecords
  <2>3. bridge'.done = bridge.done \/ bridge'.done = Restrict(bridge.done, DOMAIN bridge.done \ {c})
    BY <1>0, <1>1 DEF Completion, TimeOut, DropCall, BridgeRecords
  <2>4. DOMAIN bridge'.done \subseteq DOMAIN bridge.done /\ \A d \in DOMAIN bridge'.done : bridge'.done[d] = bridge.done[d]
    BY <2>3 DEF Restrict
  <2>5. \A d \in KCalls : kcall'[d].kind = kcall[d].kind /\ kcall'[d].asked = kcall[d].asked
    <3>1. PICK x : kcall' = [kcall EXCEPT ![c].at = x]
      BY <1>1 DEF Completion, TimeOut, DropCall
    <3>. QED
      BY <1>0, <3>1 DEF KCallRecords
  <2>. QED
    BY <1>0, <2>1, <2>2, <2>4, <2>5, FreshStays
<1>2. ASSUME NEW c \in KCalls, NEW k \in Kinds, QueueCommand(c, k)
      PROVE  FreshInv'
  <2>1. UNCHANGED <<script, bus, comp, overtaken>> /\ kcall[c].at = "none"
    BY <1>2 DEF QueueCommand
  <2>2. bridge'.latest = bridge.latest /\ bridge'.done = bridge.done
    BY <1>0, <1>2 DEF QueueCommand, BridgeRecords
  <2>3. kcall'[c].asked = comp.version /\ \A d \in KCalls : d # c => kcall'[d] = kcall[d]
    BY <1>0, <1>2 DEF QueueCommand
  <2>. QED
    BY <1>0, <2>1, <2>2, <2>3, FreshStays
<1>3. ASSUME NEW s \in Scripts, NextCommand(s) \/ StopScript(s) \/ PollExpires(s)
      PROVE  FreshInv'
  <2>1. UNCHANGED <<kcall, bus, overtaken>>
    BY <1>3 DEF NextCommand, StopScript, PollExpires
  <2>2. bridge'.latest = bridge.latest /\ bridge'.done = bridge.done /\ comp'.version = comp.version
    BY <1>0, <1>3, KWinShape DEF NextCommand, StopScript, PollExpires, BridgeRecords, Compositors
  <2>. QED
    BY <1>0, <2>1, <2>2, FreshStays
<1>4. ASSUME CursorMoves
      PROVE  FreshInv'
  <2>1. UNCHANGED <<kcall, bridge, script, bus, overtaken>> /\ comp'.version = comp.version + 1
    BY <1>4, KWinShape DEF CursorMoves, Compositors
  <2>. QED
    BY <1>0, <2>1, FreshStays
<1>5. ASSUME NEW s \in Scripts, StartScript(s)
      PROVE  FreshInv'
  <2>. DEFINE v == Snapshot(comp.version)
  <2>1. v \in SnapshotMessages \union DoneMessages /\ v \notin DoneMessages /\ v.version = comp.version
    BY KWinShape, SnapshotIsNoCompletion DEF Snapshot
  <2>2. UNCHANGED <<kcall, bridge, comp, overtaken>> /\ bus' = Append(bus, v)
    BY <1>5 DEF StartScript
  <2>. HIDE DEF v
  <2>3. bus' = bus \o <<v>>
    BY <2>1, <2>2, KWinShape, AppendIsConcat
  <2>4. <<v>> \in Seq(SnapshotMessages \union DoneMessages) /\ \A k \in 1..Len(<<v>>) : <<v>>[k] = v
    <3>1. <<v>> \in Seq(SnapshotMessages \union DoneMessages) /\ Len(<<v>>) = 1 /\ <<v>>[1] = v
      BY <2>1, OneOrTwo
    <3>. QED
      BY <3>1
  <2>5. UNCHANGED <<kcall, bridge, overtaken>> /\ comp'.version \in Nat /\ comp'.version >= comp.version
    BY <1>0, <2>2
  <2>6. /\ \A k \in 1..Len(<<v>>) : <<v>>[k] \in SnapshotMessages => <<v>>[k].version = comp'.version
        /\ \A k \in 1..Len(<<v>>) : <<v>>[k] \notin DoneMessages
    BY <2>1, <2>2, <2>4
  <2>. QED
    BY <2>3, <2>4, <2>5, <2>6, FreshSent
<1>6. ASSUME NEW s \in Scripts, RunCommand(s)
      PROVE  FreshInv'
  <2>0. PICK c : c = script[s].id
    OBVIOUS
  <2>1. c \in KCalls /\ UNCHANGED <<kcall, bridge, overtaken>>
    BY <1>6, <2>0 DEF RunCommand, KWinInv, HandRule, InHand
  <2>2. CASE bus' = bus \o <<Snapshot(comp'.version), Done(c, TRUE)>> /\
             comp' = [comp EXCEPT !.ran[c] = @ + 1,
                                  !.version = IF kcall[c].kind = "window" /\ @ < MaxVersion THEN @ + 1 ELSE @]
    <3>1. comp'.version \in 0..MaxVersion /\ comp'.version >= comp.version
      BY <2>2, KWinShape DEF Compositors
    <3>. DEFINE v == Snapshot(comp'.version)
                d == Done(c, TRUE)
                a == <<v, d>>
    <3>2. v \in SnapshotMessages /\ v \notin DoneMessages /\ v.version = comp'.version
      BY <3>1, SnapshotIsNoCompletion DEF Snapshot
    <3>3. d \in DoneMessages /\ d \notin SnapshotMessages
      BY <2>1 DEF Done, DoneMessages, SnapshotMessages
    <3>4. bus' = bus \o a
      BY <2>2
    <3>. HIDE DEF v, d
    <3>5. a \in Seq(SnapshotMessages \union DoneMessages) /\ Len(a) = 2 /\ a[1] = v /\ a[2] = d
      <4>1. v \in SnapshotMessages \union DoneMessages /\ d \in SnapshotMessages \union DoneMessages
        BY <3>2, <3>3
      <4>. QED
        BY <4>1, OneOrTwo
    <3>. HIDE DEF a
    <3>6. \A k \in 1..Len(a) : k = 1 \/ k = 2
      BY <3>5
    <3>7. /\ \A k \in 1..Len(a) : a[k] \in SnapshotMessages => a[k].version = comp'.version
          /\ \A k \in 1..Len(a) : a[k] \in DoneMessages /\ a[k].ok => \E j \in 1..Len(a) : j < k /\ a[j] \in SnapshotMessages
      BY <3>2, <3>3, <3>5, <3>6
    <3>8. UNCHANGED <<kcall, bridge, overtaken>> /\ comp'.version \in Nat /\ comp'.version >= comp.version
      BY <1>0, <2>1, <3>1, KWinShape
    <3>. QED
      BY <3>4, <3>5, <3>7, <3>8, FreshSent
  <2>3. CASE bus' = Append(bus, Done(c, FALSE)) /\ UNCHANGED comp
    <3>. DEFINE d == Done(c, FALSE)
    <3>1. d \in SnapshotMessages \union DoneMessages /\ d \notin SnapshotMessages /\ d.ok = FALSE
      BY <2>1 DEF Done, DoneMessages, SnapshotMessages
    <3>. HIDE DEF d
    <3>2. bus' = bus \o <<d>>
      BY Zenon, <2>3, <3>1, KWinShape, AppendIsConcat DEF d
    <3>3. <<d>> \in Seq(SnapshotMessages \union DoneMessages) /\ \A k \in 1..Len(<<d>>) : <<d>>[k] = d
      <4>1. <<d>> \in Seq(SnapshotMessages \union DoneMessages) /\ Len(<<d>>) = 1 /\ <<d>>[1] = d
        BY <3>1, OneOrTwo
      <4>. QED
        BY <4>1
    <3>4. UNCHANGED <<kcall, bridge, overtaken>> /\ comp'.version \in Nat /\ comp'.version >= comp.version
      BY <1>0, <2>1, <2>3
    <3>5. /\ \A k \in 1..Len(<<d>>) : <<d>>[k] \notin SnapshotMessages
          /\ \A k \in 1..Len(<<d>>) : ~<<d>>[k].ok
      BY <3>1, <3>3
    <3>. QED
      BY <3>2, <3>3, <3>4, <3>5, FreshSent
  <2>. QED
    BY <1>6, <2>0, <2>2, <2>3 DEF RunCommand
<1>7. ASSUME CompositorChanges
      PROVE  FreshInv'
  <2>. DEFINE v == Snapshot(comp.version + 1)
              a == [i \in 1..Cardinality(On) |-> v]
  <2>1. Cardinality(On) \in Nat
    <3>1. On \subseteq Scripts
      BY DEF On
    <3>. QED
      BY <3>1, KWinShape, FS_Subset, FS_CardinalityType
  <2>2. UNCHANGED <<kcall, bridge, overtaken>> /\ comp'.version = comp.version + 1 /\ comp'.version \in 0..MaxVersion
    BY <1>7, KWinShape DEF CompositorChanges, Compositors
  <2>3. v \in SnapshotMessages /\ v \notin DoneMessages /\ v.version = comp'.version
    BY <2>2, SnapshotIsNoCompletion DEF Snapshot
  <2>4. bus' = bus \o a
    BY <1>7 DEF CompositorChanges
  <2>. HIDE DEF v
  <2>5. a \in Seq(SnapshotMessages \union DoneMessages) /\ \A k \in 1..Len(a) : a[k] = v
    BY <2>1, <2>3
  <2>. HIDE DEF a
  <2>6. UNCHANGED <<kcall, bridge, overtaken>> /\ comp'.version \in Nat /\ comp'.version >= comp.version
    BY <1>0, <2>2
  <2>7. /\ \A k \in 1..Len(a) : a[k] \in SnapshotMessages => a[k].version = comp'.version
        /\ \A k \in 1..Len(a) : a[k] \notin DoneMessages
    BY <2>3, <2>5
  <2>. QED
    BY <2>4, <2>5, <2>6, <2>7, FreshSent
<1>. QED
  BY <1>1, <1>2, <1>3, <1>4, <1>5, <1>6, <1>7, FreshHandled DEF KWinNext

LEMMA FreshRests ==
  ASSUME FreshInv, UNCHANGED kwinVars
  PROVE  FreshInv'
BY DEF FreshInv, AskedRule, OrderRule, PublishedRule, AnsweredRule, Snap, Refreshed, kwinVars

\* A command goes to a script only while its call waits, or was dropped; a refresh returns with what it asked for.
LEMMA CommandsAreTimely ==
  ASSUME KWinInv, FreshInv, KWinNext
  PROVE  /\ \A s \in Scripts : script'[s].at = "run" /\ script[s].at # "run" => kcall[script'[s].id].at \in {"wait", "dropped"}
         /\ \A c \in KCalls : kcall[c].kind = "snapshot" /\ kcall[c].at = "wait" /\ kcall'[c].at = "ok"
              => overtaken \/ bridge.latest >= kcall[c].asked
<1>1. ASSUME NEW s \in Scripts, script'[s].at = "run", script[s].at # "run"
      PROVE  kcall[script'[s].id].at \in {"wait", "dropped"}
  <2>1. NextCommand(s)
    <3>1. \A t \in Scripts : script[t] \in ScriptRecords
      BY KWinShape
    <3>2. script' # script
      BY <1>1
    <3>3. \E t \in Scripts : NextCommand(t) \/ StartScript(t) \/ StopScript(t) \/ PollExpires(t) \/ RunCommand(t)
      BY <3>2 DEF KWinNext, Completion, TimeOut, DropCall, QueueCommand, Handle, CompositorChanges, CursorMoves
    <3>4. PICK t \in Scripts : NextCommand(t) \/ StartScript(t) \/ StopScript(t) \/ PollExpires(t) \/ RunCommand(t)
      BY <3>3
    <3>5. t = s
      BY <1>1, <3>4, KWinShape DEF NextCommand, StartScript, StopScript, PollExpires, RunCommand
    <3>6. ~StartScript(s) /\ ~PollExpires(s)
      BY <1>1, <3>1, KWinShape DEF StartScript, PollExpires, ScriptRecords
    <3>7. ~StopScript(s) /\ ~RunCommand(s)
      <4>1. StopScript(s) => script'[s].at \in {"stale", "off"}
        BY KWinShape DEF StopScript
      <4>2. RunCommand(s) => script'[s].at = "poll"
        BY KWinShape DEF RunCommand
      <4>. QED
        BY <1>1, <4>1, <4>2
    <3>. QED
      BY <3>4, <3>5, <3>6, <3>7
  <2>2. bridge.queue \in Seq(KCalls) /\ bridge.queue # <<>> /\ script'[s].id = Head(bridge.queue)
    BY <1>1, <2>1, KWinShape DEF NextCommand
  <2>3. 1 \in 1..Len(bridge.queue) /\ Head(bridge.queue) = bridge.queue[1]
    BY <2>2
  <2>. QED
    BY <2>2, <2>3 DEF KWinInv, WaitingRule, Pending
<1>2. ASSUME NEW c \in KCalls, kcall[c].kind = "snapshot", kcall[c].at = "wait", kcall'[c].at = "ok"
      PROVE  overtaken \/ bridge.latest >= kcall[c].asked
  <2>1. \E d \in KCalls : Completion(d) \/ TimeOut(d) \/ DropCall(d) \/ (\E k \in Kinds : QueueCommand(d, k))
    BY <1>2 DEF KWinNext, NextCommand, StartScript, StopScript, PollExpires, RunCommand, Handle, CompositorChanges, CursorMoves
  <2>2. PICK d \in KCalls : Completion(d) \/ TimeOut(d) \/ DropCall(d) \/ (\E k \in Kinds : QueueCommand(d, k))
    BY <2>1
  <2>3. d = c
    BY <1>2, <2>2, KWinShape DEF Completion, TimeOut, DropCall, QueueCommand
  <2>4. kcall[c] \in KCallRecords
    BY KWinShape
  <2>5. ~TimeOut(c) /\ ~DropCall(c) /\ ~(\E k \in Kinds : QueueCommand(c, k))
    BY <1>2, <2>4, KWinShape DEF TimeOut, DropCall, QueueCommand, KCallRecords
  <2>6. c \in DOMAIN bridge.done /\ bridge.done[c]
    BY <1>2, <2>2, <2>3, <2>4, <2>5, KWinShape DEF Completion, KCallRecords
  <2>. QED
    BY Zenon, <1>2, <2>6 DEF FreshInv, AnsweredRule, Refreshed
<1>. QED
  BY <1>1, <1>2

-----------------------------------------------------------------------------
(* Input on KWin through the portal: the lock is held over the start of a  *)
(* session for input, and a session that was consented to is in some       *)
(* call's hand, cached, or about to be closed.                             *)

PortalEvents == {"down", "tap", "up", "unknown", "refresh", "motion", "button", "axis"}
InputPlaces == {"none", "lock", "store", "notify"} \union Starting \union Ended
PortalCalls == [at: InputPlaces, op: Ops, sess: 0..MaxSessions, todo: Seq(PortalEvents), saw: Int, off: BOOLEAN]

PortalTypes ==
  /\ icall \in [PCalls -> PortalCalls] /\ cached \in 0..MaxSessions /\ locked \in PCalls \union {Free}
  /\ portal \in [Sessions -> {"none", "created", "started", "closed"}]
  /\ closing \subseteq Sessions /\ hand \in 0..MaxHand /\ cursor \in Int

\* A motion comes after its refresh, a button or an axis event after a motion, another one or itself.
Aimed == {"button", "axis"}
InTurn(t) ==
  \A i \in 1..(Len(t) - 1) : /\ t[i + 1] = "motion" <=> t[i] = "refresh"
                             /\ t[i + 1] \in Aimed => t[i] \in {"motion"} \union Aimed
HoldsLock(c, x, l) == x.op # "prompt" /\ x.at \in Starting => l = c
NoSessionYet(x) == x.at \in {"none", "lock", "create"} \union Ended => x.sess = 0
OnSpot(c, x, p) == Len(x.todo) > 0 /\ ~x.off => (x.todo[1] \in Aimed => p = Spot[c]) /\ (x.todo[1] = "motion" => p = x.saw)
CallRuled(c, x, l, p) == HoldsLock(c, x, l) /\ NoSessionYet(x) /\ InTurn(x.todo) /\ OnSpot(c, x, p)

PortalInv == PortalTypes /\ (\A c \in PCalls : CallRuled(c, icall[c], locked, cursor)) /\ NoOrphanConsent

LEMMA PortalBegins ==
  ASSUME PortalInit
  PROVE  PortalInv
<1>. DEFINE x == [at |-> "none", op |-> "move", sess |-> 0, todo |-> <<>>, saw |-> 0, off |-> FALSE]
<1>1. x \in PortalCalls
  BY PortalAssumption DEF PortalCalls, InputPlaces, Ops
<1>2. x.at = "none" /\ x.sess = 0 /\ x.todo = <<>>
  OBVIOUS
<1>3. icall = [c \in PCalls |-> x] /\ cached = 0 /\ locked = Free /\ portal = [s \in Sessions |-> "none"]
      /\ closing = {} /\ cursor = 0 /\ hand = 0
  BY DEF PortalInit
<1>. HIDE DEF x
<1>4. \A c \in PCalls : CallRuled(c, x, locked, cursor)
  BY <1>2 DEF CallRuled, HoldsLock, NoSessionYet, InTurn, OnSpot, Starting
<1>5. PortalTypes
  BY <1>1, <1>3, PortalAssumption DEF PortalTypes
<1>6. NoOrphanConsent
  BY <1>3 DEF NoOrphanConsent
<1>. QED
  BY <1>3, <1>4, <1>5, <1>6 DEF PortalInv

\* One call moves; the pointer stays.
LEMMA OneCallMoves ==
  ASSUME PortalInv, NEW c \in PCalls, NEW x \in PortalCalls, icall' = [icall EXCEPT ![c] = x], cursor' = cursor,
         cached' \in 0..MaxSessions, locked' = locked \/ (locked' = Free /\ locked = c) \/ (locked' = c /\ locked = Free),
         portal' \in [Sessions -> {"none", "created", "started", "closed"}],
         closing' \subseteq Sessions, UNCHANGED hand,
         CallRuled(c, x, locked', cursor),
         \A s \in Sessions : portal'[s] = "started" =>
           s = cached' \/ s \in closing' \/ x.sess = s \/ (portal[s] = "started" /\ s # cached /\ s \notin closing /\ icall[c].sess # s)
  PROVE  PortalInv'
<1>0. PortalTypes /\ Free \notin PCalls
  BY PortalAssumption DEF PortalInv
<1>1. icall' \in [PCalls -> PortalCalls] /\ icall'[c] = x /\ \A d \in PCalls : d # c => icall'[d] = icall[d]
  BY <1>0 DEF PortalTypes
<1>2. PortalTypes'
  BY <1>0, <1>1 DEF PortalTypes
<1>3. \A d \in PCalls : CallRuled(d, icall'[d], locked', cursor')
  <2>. SUFFICES ASSUME NEW d \in PCalls, d # c PROVE CallRuled(d, icall[d], locked', cursor)
    BY <1>1
  <2>1. CallRuled(d, icall[d], locked, cursor)
    BY DEF PortalInv
  <2>. QED
    BY <1>0, <2>1 DEF CallRuled, HoldsLock
<1>4. NoOrphanConsent'
  <2>. SUFFICES ASSUME NEW s \in Sessions, portal'[s] = "started"
                PROVE  s = cached' \/ s \in closing' \/ \E d \in PCalls : icall'[d].sess = s
    BY DEF NoOrphanConsent
  <2>1. CASE portal[s] = "started" /\ s # cached /\ s \notin closing /\ icall[c].sess # s
    <3>1. PICK d \in PCalls : icall[d].sess = s
      BY <2>1 DEF PortalInv, NoOrphanConsent
    <3>. QED
      BY <1>1, <2>1, <3>1
  <2>. QED
    BY <1>1, <2>1
<1>. QED
  BY <1>2, <1>3, <1>4 DEF PortalInv

\* Where a call is.
LEMMA PortalShape ==
  ASSUME PortalInv
  PROVE  /\ PortalTypes /\ icall \in [PCalls -> PortalCalls] /\ MaxSessions \in Nat
         /\ \A c \in PCalls : /\ icall[c] \in PortalCalls /\ CallRuled(c, icall[c], locked, cursor)
                              /\ icall[c].sess \in 0..MaxSessions /\ icall[c].todo \in Seq(PortalEvents)
         /\ cached \in 0..MaxSessions /\ closing \subseteq Sessions
         /\ portal \in [Sessions -> {"none", "created", "started", "closed"}]
         /\ \A s \in Sessions : s # 0
<1>1. PortalTypes /\ icall \in [PCalls -> PortalCalls] /\ MaxSessions \in Nat
  BY PortalAssumption DEF PortalInv, PortalTypes
<1>2. \A c \in PCalls : icall[c] \in PortalCalls /\ CallRuled(c, icall[c], locked, cursor)
  BY <1>1 DEF PortalInv
<1>3. \A c \in PCalls : icall[c].sess \in 0..MaxSessions /\ icall[c].todo \in Seq(PortalEvents)
  BY <1>2 DEF PortalCalls
<1>. QED
  BY <1>1, <1>2, <1>3 DEF PortalTypes, Sessions

LEMMA Dropping ==
  ASSUME NEW s \in 0..MaxSessions, MaxSessions \in Nat, closing \subseteq Sessions
  PROVE  DropSession(s) \subseteq Sessions /\ closing \subseteq DropSession(s) /\ (s # 0 => s \in DropSession(s))
BY DEF DropSession, Sessions

LEMMA FinishKeeps ==
  ASSUME PortalInv, NEW c \in PCalls, Finish(c, "failed")
  PROVE  PortalInv'
<1>0. PICK x : x = [icall[c] EXCEPT !.at = "failed", !.sess = 0, !.todo = <<>>]
  OBVIOUS
<1>1. x \in PortalCalls /\ x.at = "failed" /\ x.sess = 0 /\ x.todo = <<>> /\ x.op = icall[c].op
  <2>1. "failed" \in InputPlaces /\ 0 \in 0..MaxSessions /\ <<>> \in Seq(PortalEvents) /\ icall[c] \in PortalCalls
    BY PortalShape DEF InputPlaces, Ended
  <2>2. x \in PortalCalls
    BY <1>0, <2>1 DEF PortalCalls
  <2>. QED
    BY <1>0, <2>1, <2>2 DEF PortalCalls
<1>2. /\ icall' = [icall EXCEPT ![c] = x] /\ UNCHANGED <<cached, cursor, hand>>
      /\ locked' = locked \/ (locked' = Free /\ locked = c)
  BY <1>0, PortalShape DEF Finish
<1>3. CallRuled(c, x, locked', cursor)
  BY <1>1 DEF CallRuled, HoldsLock, NoSessionYet, InTurn, OnSpot, Starting
<1>4. CASE icall[c].at \in Starting
  <2>1. portal' = [s \in Sessions |-> IF s = icall[c].sess THEN "closed" ELSE portal[s]] /\ UNCHANGED closing
    BY <1>4 DEF Finish
  <2>2. portal' \in [Sessions -> {"none", "created", "started", "closed"}]
    BY <2>1, PortalShape
  <2>3. \A s \in Sessions : portal'[s] = "started" => portal[s] = "started" /\ icall[c].sess # s
    BY <2>1
  <2>. QED
    BY <1>1, <1>2, <1>3, <2>1, <2>2, <2>3, PortalShape, OneCallMoves
<1>5. CASE icall[c].at \notin Starting
  <2>1. UNCHANGED portal /\ closing' = DropSession(icall[c].sess)
    BY <1>5 DEF Finish
  <2>2. closing' \subseteq Sessions /\ closing \subseteq closing' /\ (icall[c].sess # 0 => icall[c].sess \in closing')
    BY <2>1, PortalShape, Dropping
  <2>3. \A s \in Sessions : portal'[s] = "started" => s \in closing' \/ icall[c].sess # s
    BY <2>2, PortalShape
  <2>4. \A s \in Sessions : portal'[s] = "started" =>
           s = cached' \/ s \in closing' \/ x.sess = s \/ (portal[s] = "started" /\ s # cached /\ s \notin closing /\ icall[c].sess # s)
    BY <1>2, <2>1, <2>2, <2>3
  <2>. QED
    BY ZenonT(40), <1>1, <1>2, <1>3, <2>1, <2>2, <2>4, PortalShape, OneCallMoves
<1>. QED
  BY <1>4, <1>5

LEMMA CloseSessionKeeps ==
  ASSUME PortalInv, NEW s \in Sessions, CloseSession(s)
  PROVE  PortalInv'
<1>1. /\ closing' = closing \ {s} /\ portal' = [portal EXCEPT ![s] = "closed"]
      /\ UNCHANGED <<icall, cached, locked, cursor, hand>>
  BY DEF CloseSession
<1>2. PortalTypes'
  BY <1>1, PortalShape DEF PortalTypes
<1>3. NoOrphanConsent'
  BY <1>1, PortalShape DEF PortalInv, NoOrphanConsent
<1>4. \A c \in PCalls : CallRuled(c, icall'[c], locked', cursor')
  BY <1>1 DEF PortalInv
<1>. QED
  BY <1>2, <1>3, <1>4 DEF PortalInv

\* A step that gives one call another place, and perhaps the lock; sessions stay as they are.
LEMMA OnlyPlace ==
  ASSUME PortalInv, NEW c \in PCalls, NEW a \in InputPlaces, NEW s \in 0..MaxSessions, NEW o \in Ops,
         icall' = [icall EXCEPT ![c].at = a, ![c].sess = s, ![c].op = o],
         UNCHANGED <<cached, closing, portal, cursor, hand>>,
         locked' = locked \/ (locked' = c /\ locked = Free),
         o # "prompt" /\ a \in Starting => locked' = c,
         a \in {"none", "lock", "create"} \union Ended => s = 0,
         icall[c].sess = 0 \/ s = icall[c].sess
  PROVE  PortalInv'
<1>1. PICK x : x = [icall[c] EXCEPT !.at = a, !.sess = s, !.op = o]
  OBVIOUS
<1>2. icall[c] \in PortalCalls
  BY PortalShape
<1>3. x \in PortalCalls /\ x.at = a /\ x.sess = s /\ x.op = o
  BY <1>1, <1>2 DEF PortalCalls
<1>4. x.todo = icall[c].todo /\ x.saw = icall[c].saw /\ x.off = icall[c].off
  BY <1>1, <1>2 DEF PortalCalls
<1>5. icall' = [icall EXCEPT ![c] = x]
  BY <1>1, PortalShape
<1>6. CallRuled(c, x, locked', cursor)
  <2>1. CallRuled(c, icall[c], locked, cursor)
    BY PortalShape
  <2>2. HoldsLock(c, x, locked') /\ NoSessionYet(x)
    BY <1>3 DEF HoldsLock, NoSessionYet
  <2>3. InTurn(x.todo) /\ OnSpot(c, x, cursor)
    BY <1>4, <2>1 DEF CallRuled, OnSpot
  <2>. QED
    BY <2>2, <2>3 DEF CallRuled
<1>7. \A t \in Sessions : portal'[t] = "started" =>
        t = cached' \/ t \in closing' \/ x.sess = t \/ (portal[t] = "started" /\ t # cached /\ t \notin closing /\ icall[c].sess # t)
  BY <1>3, PortalShape
<1>. QED
  BY <1>3, <1>5, <1>6, <1>7, PortalShape, OneCallMoves

LEMMA PortalPlaces ==
  /\ {"none", "lock", "store", "notify", "create", "select", "start", "ok", "failed"} = InputPlaces
  /\ Starting = {"create", "select", "start"} /\ Ended = {"ok", "failed"}
BY DEF InputPlaces, Starting, Ended

LEMMA QuietCallKeeps ==
  ASSUME PortalInv, NEW c \in PCalls,
         (\E op \in OpsOf[c] : BeginCall(c, op)) \/ EnsureSession(c) \/ Prompt(c) \/ SelectDevices(c)
  PROVE  PortalInv'
<1>0. icall[c] \in PortalCalls /\ icall[c].op \in Ops /\ icall[c].sess \in 0..MaxSessions /\ OpsOf[c] \subseteq Ops
      /\ icall \in [PCalls -> PortalCalls] /\ CallRuled(c, icall[c], locked, cursor) /\ cached \in 0..MaxSessions /\ 0 \in 0..MaxSessions
  BY PortalShape, PortalAssumption DEF PortalCalls
<1>1. CASE \E op \in OpsOf[c] : BeginCall(c, op)
  <2>1. PICK op \in OpsOf[c] : BeginCall(c, op)
    BY <1>1
  <2>2. icall[c].sess = 0 /\ UNCHANGED <<cached, locked, portal, closing, cursor, hand>>
    BY <1>0, <2>1 DEF BeginCall, CallRuled, NoSessionYet
  <2>3. CASE icall' = [icall EXCEPT ![c].at = "lock", ![c].op = op]
    <3>1. icall' = [icall EXCEPT ![c].at = "lock", ![c].sess = 0, ![c].op = op]
      BY <1>0, <2>2, <2>3 DEF PortalCalls
    <3>. QED
      BY <1>0, <2>2, <3>1, PortalPlaces, OnlyPlace
  <2>4. CASE icall' = [icall EXCEPT ![c].at = "failed"]
    <3>1. icall' = [icall EXCEPT ![c].at = "failed", ![c].sess = 0, ![c].op = icall[c].op]
      BY <1>0, <2>2, <2>4 DEF PortalCalls
    <3>. QED
      BY <1>0, <2>2, <3>1, PortalPlaces, OnlyPlace
  <2>. QED
    BY <2>1, <2>3, <2>4 DEF BeginCall
<1>2. CASE EnsureSession(c)
  <2>1. icall[c].sess = 0 /\ icall[c].op # "prompt" /\ locked = Free /\ UNCHANGED <<cached, portal, closing, cursor, hand>>
    BY <1>0, <1>2 DEF EnsureSession, CallRuled, NoSessionYet
  <2>2. CASE cached # 0
    <3>1. icall' = [icall EXCEPT ![c].at = "notify", ![c].sess = cached, ![c].op = icall[c].op] /\ locked' = locked
      BY <1>0, <1>2, <2>2 DEF EnsureSession, PortalCalls
    <3>. QED
      BY <1>0, <2>1, <3>1, PortalPlaces, OnlyPlace
  <2>3. CASE cached = 0
    <3>1. icall' = [icall EXCEPT ![c].at = "create", ![c].sess = 0, ![c].op = icall[c].op] /\ locked' = c
      BY <1>0, <1>2, <2>1, <2>3 DEF EnsureSession, PortalCalls
    <3>. QED
      BY <1>0, <2>1, <3>1, PortalPlaces, OnlyPlace
  <2>. QED
    BY <2>2, <2>3
<1>3. CASE Prompt(c)
  <2>1. icall[c].sess = 0 /\ icall[c].op = "prompt" /\ UNCHANGED <<cached, locked, portal, closing, cursor, hand>>
    BY <1>0, <1>3 DEF Prompt, CallRuled, NoSessionYet
  <2>2. icall' = [icall EXCEPT ![c].at = "create", ![c].sess = 0, ![c].op = icall[c].op]
    BY <1>0, <1>3, <2>1 DEF Prompt, PortalCalls
  <2>. QED
    BY <1>0, <2>1, <2>2, PortalPlaces, OnlyPlace
<1>4. CASE SelectDevices(c)
  <2>1. icall[c].at = "select" /\ UNCHANGED <<cached, locked, portal, closing, cursor, hand>>
    BY <1>4 DEF SelectDevices
  <2>2. icall' = [icall EXCEPT ![c].at = "start", ![c].sess = icall[c].sess, ![c].op = icall[c].op]
    BY <1>0, <1>4 DEF SelectDevices, PortalCalls
  <2>3. icall[c].op # "prompt" => locked' = c
    BY <1>0, <2>1, PortalPlaces DEF CallRuled, HoldsLock
  <2>. QED
    BY <1>0, <2>1, <2>2, <2>3, PortalPlaces, OnlyPlace
<1>. QED
  BY <1>1, <1>2, <1>3, <1>4

LEMMA CreateSessionKeeps ==
  ASSUME PortalInv, NEW c \in PCalls, CreateSession(c)
  PROVE  PortalInv'
<1>0. icall[c] \in PortalCalls /\ CallRuled(c, icall[c], locked, cursor) /\ icall[c].at = "create"
      /\ UNCHANGED <<cached, locked, closing, cursor, hand>>
  BY PortalShape DEF CreateSession
<1>1. PICK s \in Sessions : /\ portal' = [portal EXCEPT ![s] = "created"]
                            /\ icall' = [icall EXCEPT ![c].at = "select", ![c].sess = s]
  BY DEF CreateSession
<1>2. PICK x : x = [icall[c] EXCEPT !.at = "select", !.sess = s]
  OBVIOUS
<1>3. x \in PortalCalls /\ x.at = "select" /\ x.sess = s
  <2>1. "select" \in InputPlaces /\ s \in 0..MaxSessions
    BY PortalPlaces, PortalShape DEF Sessions
  <2>2. x \in PortalCalls
    BY <1>0, <1>2, <2>1 DEF PortalCalls
  <2>. QED
    BY <1>0, <1>2, <2>1, <2>2 DEF PortalCalls
<1>4. x.op = icall[c].op /\ x.todo = icall[c].todo /\ x.saw = icall[c].saw /\ x.off = icall[c].off
  BY <1>0, <1>2 DEF PortalCalls
<1>5. icall' = [icall EXCEPT ![c] = x]
  BY <1>1, <1>2, PortalShape
<1>6. CallRuled(c, x, locked', cursor)
  BY <1>0, <1>3, <1>4, PortalPlaces DEF CallRuled, HoldsLock, NoSessionYet, OnSpot
<1>7. icall[c].sess = 0
  BY <1>0 DEF CallRuled, NoSessionYet
<1>8. portal' \in [Sessions -> {"none", "created", "started", "closed"}] /\ \A t \in Sessions : portal'[t] = "started" => portal[t] = "started"
  BY <1>1, PortalShape
<1>9. \A t \in Sessions : portal'[t] = "started" =>
        t = cached' \/ t \in closing' \/ x.sess = t \/ (portal[t] = "started" /\ t # cached /\ t \notin closing /\ icall[c].sess # t)
  BY <1>0, <1>7, <1>8, PortalShape
<1>. QED
  BY ZenonT(40), <1>0, <1>3, <1>5, <1>6, <1>8, <1>9, PortalShape, OneCallMoves

\* A session whose call goes on with it, or is done with it.
LEMMA StartSessionKeeps ==
  ASSUME PortalInv, NEW c \in PCalls, StartSession(c)
  PROVE  PortalInv'
<1>0. icall[c] \in PortalCalls /\ CallRuled(c, icall[c], locked, cursor) /\ icall[c].at = "start"
      /\ icall[c].sess \in 0..MaxSessions /\ UNCHANGED <<cursor, hand>>
  BY PortalShape DEF StartSession
<1>1. PICK s \in 0..MaxSessions : s = icall[c].sess
  BY <1>0
<1>2. /\ portal' \in [Sessions -> {"none", "created", "started", "closed"}]
      /\ \A t \in Sessions : t # s => portal'[t] = portal[t]
  BY <1>1, PortalShape DEF StartSession
<1>3. "notify" \in InputPlaces /\ "failed" \in InputPlaces /\ "store" \in InputPlaces /\ 0 \in 0..MaxSessions
  BY PortalPlaces, PortalShape
<1>4. CASE /\ icall[c].op # "prompt"
           /\ cached' = icall[c].sess /\ locked' = Free
           /\ closing' = DropSession(cached)
           /\ icall' = [icall EXCEPT ![c].at = "notify"]
  <2>1. PICK x : x = [icall[c] EXCEPT !.at = "notify"]
    OBVIOUS
  <2>2. x \in PortalCalls
    BY <1>0, <1>3, <2>1 DEF PortalCalls
  <2>3. x.at = "notify" /\ x.sess = s /\ x.op = icall[c].op /\ x.todo = icall[c].todo /\ x.saw = icall[c].saw /\ x.off = icall[c].off
    BY <1>0, <1>1, <2>1 DEF PortalCalls
  <2>4. icall' = [icall EXCEPT ![c] = x]
    BY <1>4, <2>1, PortalShape
  <2>5. CallRuled(c, x, locked', cursor)
    BY <1>0, <2>3, PortalPlaces DEF CallRuled, HoldsLock, NoSessionYet, OnSpot
  <2>6. locked = c
    BY <1>0, <1>4, PortalPlaces DEF CallRuled, HoldsLock
  <2>7. closing' \subseteq Sessions /\ closing \subseteq closing' /\ (cached # 0 => cached \in closing')
    BY <1>4, PortalShape, Dropping
  <2>8. \A t \in Sessions : portal'[t] = "started" =>
          t = cached' \/ t \in closing' \/ x.sess = t \/ (portal[t] = "started" /\ t # cached /\ t \notin closing /\ icall[c].sess # t)
    BY <1>1, <1>2, <1>4, <2>3, <2>7, PortalShape
  <2>. QED
    BY ZenonT(40), <1>0, <1>1, <1>2, <1>4, <2>2, <2>4, <2>5, <2>6, <2>7, <2>8, OneCallMoves
<1>5. CASE /\ icall[c].op # "prompt"
           /\ closing' = DropSession(icall[c].sess) /\ locked' = Free
           /\ icall' = [icall EXCEPT ![c].at = "failed", ![c].sess = 0]
           /\ UNCHANGED cached
  <2>1. PICK x : x = [icall[c] EXCEPT !.at = "failed", !.sess = 0]
    OBVIOUS
  <2>2. x \in PortalCalls
    BY <1>0, <1>3, <2>1 DEF PortalCalls
  <2>3. x.at = "failed" /\ x.sess = 0 /\ x.op = icall[c].op /\ x.todo = icall[c].todo /\ x.saw = icall[c].saw /\ x.off = icall[c].off
    BY <1>0, <1>1, <2>1 DEF PortalCalls
  <2>4. icall' = [icall EXCEPT ![c] = x]
    BY <1>5, <2>1, PortalShape
  <2>5. CallRuled(c, x, locked', cursor)
    BY <1>0, <2>3, PortalPlaces DEF CallRuled, HoldsLock, NoSessionYet, OnSpot
  <2>6. locked = c
    BY <1>0, <1>5, PortalPlaces DEF CallRuled, HoldsLock
  <2>7. closing' \subseteq Sessions /\ closing \subseteq closing' /\ (s # 0 => s \in closing')
    BY <1>1, <1>5, PortalShape, Dropping
  <2>8. \A t \in Sessions : portal'[t] = "started" =>
          t = cached' \/ t \in closing' \/ x.sess = t \/ (portal[t] = "started" /\ t # cached /\ t \notin closing /\ icall[c].sess # t)
    BY <1>1, <1>2, <1>5, <2>3, <2>7, PortalShape
  <2>9. cached' \in 0..MaxSessions /\ UNCHANGED hand /\ cursor' = cursor
    BY <1>0, <1>5, PortalShape
  <2>10. portal' \in [Sessions -> {"none", "created", "started", "closed"}] /\ closing' \subseteq Sessions
    BY <1>2, <2>7
  <2>11. locked' = locked \/ (locked' = Free /\ locked = c) \/ (locked' = c /\ locked = Free)
    BY <1>5, <2>6
  <2>. QED
    BY ZenonT(40), <1>0, <1>1, <2>2, <2>4, <2>5, <2>8, <2>9, <2>10, <2>11, OneCallMoves
<1>6. CASE /\ icall[c].op = "prompt"
           /\ icall' = [icall EXCEPT ![c].at = "store"] /\ UNCHANGED <<cached, locked, closing>>
  <2>1. PICK x : x = [icall[c] EXCEPT !.at = "store"]
    OBVIOUS
  <2>2. x \in PortalCalls
    BY <1>0, <1>3, <2>1 DEF PortalCalls
  <2>3. x.at = "store" /\ x.sess = s /\ x.op = icall[c].op /\ x.todo = icall[c].todo /\ x.saw = icall[c].saw /\ x.off = icall[c].off
    BY <1>0, <1>1, <2>1 DEF PortalCalls
  <2>4. icall' = [icall EXCEPT ![c] = x]
    BY <1>6, <2>1, PortalShape
  <2>5. CallRuled(c, x, locked', cursor)
    BY <1>0, <2>3, PortalPlaces DEF CallRuled, HoldsLock, NoSessionYet, OnSpot
  <2>8. \A t \in Sessions : portal'[t] = "started" =>
          t = cached' \/ t \in closing' \/ x.sess = t \/ (portal[t] = "started" /\ t # cached /\ t \notin closing /\ icall[c].sess # t)
    BY <1>1, <1>2, <1>6, <2>3, PortalShape
  <2>9. cached' \in 0..MaxSessions /\ UNCHANGED hand /\ cursor' = cursor
    BY <1>0, <1>6, PortalShape
  <2>10. portal' \in [Sessions -> {"none", "created", "started", "closed"}] /\ closing' \subseteq Sessions
    BY <1>2, <1>6, PortalShape
  <2>11. locked' = locked \/ (locked' = Free /\ locked = c) \/ (locked' = c /\ locked = Free)
    BY <1>6
  <2>. QED
    BY <1>0, <1>1, <2>2, <2>4, <2>5, <2>8, <2>9, <2>10, <2>11, OneCallMoves
<1>. QED
  BY <1>4, <1>5, <1>6 DEF StartSession

LEMMA StorePromptedKeeps ==
  ASSUME PortalInv, NEW c \in PCalls, StorePrompted(c)
  PROVE  PortalInv'
<1>0. /\ icall[c] \in PortalCalls /\ CallRuled(c, icall[c], locked, cursor) /\ icall[c].sess \in 0..MaxSessions
      /\ UNCHANGED <<locked, portal, cursor, hand>> /\ cached' = icall[c].sess /\ closing' = DropSession(cached)
      /\ icall' = [icall EXCEPT ![c].at = "ok", ![c].sess = 0]
  BY PortalShape DEF StorePrompted
<1>1. PICK x : x = [icall[c] EXCEPT !.at = "ok", !.sess = 0]
  OBVIOUS
<1>2. "ok" \in InputPlaces /\ 0 \in 0..MaxSessions
  BY PortalPlaces, PortalShape
<1>3. x \in PortalCalls
  BY <1>0, <1>1, <1>2 DEF PortalCalls
<1>4. x.at = "ok" /\ x.sess = 0 /\ x.op = icall[c].op /\ x.todo = icall[c].todo /\ x.saw = icall[c].saw /\ x.off = icall[c].off
  BY <1>0, <1>1 DEF PortalCalls
<1>5. icall' = [icall EXCEPT ![c] = x]
  BY <1>0, <1>1, PortalShape
<1>6. CallRuled(c, x, locked', cursor)
  BY <1>0, <1>4, PortalPlaces DEF CallRuled, HoldsLock, NoSessionYet, OnSpot
<1>7. closing' \subseteq Sessions /\ closing \subseteq closing' /\ (cached # 0 => cached \in closing')
  BY <1>0, PortalShape, Dropping
<1>8. \A t \in Sessions : portal'[t] = "started" =>
        t = cached' \/ t \in closing' \/ x.sess = t \/ (portal[t] = "started" /\ t # cached /\ t \notin closing /\ icall[c].sess # t)
  BY <1>0, <1>7, PortalShape
<1>. QED
  BY <1>0, <1>3, <1>5, <1>6, <1>7, <1>8, PortalShape, OneCallMoves

-----------------------------------------------------------------------------
(* The events of a call.                                                   *)

\* What is left of a plan in turn is in turn, and what its first event waits for is there.
LEMMA RestInTurn ==
  ASSUME NEW t \in Seq(PortalEvents), InTurn(t), Len(t) > 0
  PROVE  /\ Tail(t) \in Seq(PortalEvents) /\ InTurn(Tail(t))
         /\ Len(Tail(t)) > 0 => /\ Tail(t)[1] = "motion" <=> t[1] = "refresh"
                                /\ Tail(t)[1] \in Aimed => t[1] \in {"motion"} \union Aimed
<1>1. /\ Tail(t) \in Seq(PortalEvents) /\ Len(t) \in Nat /\ Len(Tail(t)) = Len(t) - 1
      /\ \A i \in 1..(Len(t) - 1) : Tail(t)[i] = t[i + 1]
  OBVIOUS
<1>2. \A i \in 1..(Len(t) - 2) : /\ i + 1 \in 1..(Len(t) - 1) /\ i \in 1..(Len(t) - 1)
                                 /\ Tail(t)[i] = t[i + 1] /\ Tail(t)[i + 1] = t[(i + 1) + 1]
  BY <1>1
<1>3. InTurn(Tail(t))
  BY <1>1, <1>2 DEF InTurn
<1>4. ASSUME Len(Tail(t)) > 0
      PROVE  /\ Tail(t)[1] = "motion" <=> t[1] = "refresh"
             /\ Tail(t)[1] \in Aimed => t[1] \in {"motion"} \union Aimed
  <2>1. 1 \in 1..(Len(t) - 1) /\ Tail(t)[1] = t[1 + 1]
    BY <1>1, <1>4
  <2>. QED
    BY <2>1 DEF InTurn
<1>. QED
  BY <1>1, <1>3, <1>4

LEMMA PlansInTurn ==
  ASSUME NEW op \in Ops, NEW e \in PlansOf(op)
  PROVE  e \in Seq(PortalEvents) /\ InTurn(e) /\ (Len(e) > 0 => e[1] \notin {"motion"} \union Aimed)
<1>2. e \in {<<"down", "tap", "up">>, <<"down", "unknown">>, <<"tap", "tap">>, <<"refresh", "motion", "button">>,
             <<"refresh", "motion", "button", "button">>, <<"refresh", "motion", "axis">>, <<"refresh", "motion">>, <<>>}
  BY DEF PlansOf, KeyPlans, TextPlans, ClickPlans, ScrollPlans, MovePlans, Ops
<1>3. CASE e = <<"down", "tap", "up">>
  BY <1>3 DEF InTurn, Aimed, PortalEvents
<1>4. CASE e = <<"down", "unknown">>
  BY <1>4 DEF InTurn, Aimed, PortalEvents
<1>5. CASE e = <<"tap", "tap">>
  BY <1>5 DEF InTurn, Aimed, PortalEvents
<1>6. CASE e = <<"refresh", "motion", "button">>
  BY <1>6 DEF InTurn, Aimed, PortalEvents
<1>7. CASE e = <<"refresh", "motion", "button", "button">>
  BY <1>7 DEF InTurn, Aimed, PortalEvents
<1>8. CASE e = <<"refresh", "motion", "axis">>
  BY <1>8 DEF InTurn, Aimed, PortalEvents
<1>9. CASE e = <<"refresh", "motion">>
  BY <1>9 DEF InTurn, Aimed, PortalEvents
<1>10. CASE e = <<>>
  BY <1>10 DEF InTurn
<1>. QED
  BY <1>2, <1>3, <1>4, <1>5, <1>6, <1>7, <1>8, <1>9, <1>10

\* Another call's motion, or the user's hand, takes a call off its spot.
LEMMA OffKeeps ==
  ASSUME NEW c \in PCalls, NEW x \in PortalCalls, NEW y, y = [x EXCEPT !.off = TRUE], NEW l, NEW p, NEW q, CallRuled(c, x, l, p)
  PROVE  y \in PortalCalls /\ y.sess = x.sess /\ CallRuled(c, y, l, q)
<1>1. y \in PortalCalls
  BY DEF PortalCalls
<1>2. y.off = TRUE /\ y.at = x.at /\ y.op = x.op /\ y.sess = x.sess /\ y.todo = x.todo
  BY DEF PortalCalls
<1>. QED
  BY <1>1, <1>2 DEF CallRuled, HoldsLock, NoSessionYet, OnSpot

LEMMA MotionMoves ==
  ASSUME PortalInv, NEW c \in PCalls, NEW x \in PortalCalls, cursor' \in Int,
         icall' = [d \in PCalls |-> IF d = c THEN x ELSE [icall[d] EXCEPT !.off = TRUE]],
         UNCHANGED <<cached, locked, portal, hand>>, closing' \subseteq Sessions, closing \subseteq closing',
         CallRuled(c, x, locked, cursor'),
         \A s \in Sessions : icall[c].sess = s => x.sess = s \/ s \in closing'
  PROVE  PortalInv'
<1>1. icall'[c] = x /\ \A d \in PCalls : d # c => icall'[d] = [icall[d] EXCEPT !.off = TRUE]
  OBVIOUS
<1>2. \A d \in PCalls : d # c => icall'[d] \in PortalCalls /\ icall'[d].sess = icall[d].sess /\ CallRuled(d, icall'[d], locked, cursor')
  <2>. SUFFICES ASSUME NEW d \in PCalls, d # c
                PROVE  icall'[d] \in PortalCalls /\ icall'[d].sess = icall[d].sess /\ CallRuled(d, icall'[d], locked, cursor')
    OBVIOUS
  <2>1. PICK y : y = icall'[d]
    OBVIOUS
  <2>2. y = [icall[d] EXCEPT !.off = TRUE] /\ icall[d] \in PortalCalls /\ CallRuled(d, icall[d], locked, cursor)
    BY <1>1, <2>1, PortalShape
  <2>3. y \in PortalCalls /\ y.sess = icall[d].sess /\ CallRuled(d, y, locked, cursor')
    BY SMTT(20), <2>2, OffKeeps
  <2>. QED
    BY <2>1, <2>3
<1>3. icall' \in [PCalls -> PortalCalls]
  BY <1>1, <1>2
<1>4. PortalTypes'
  BY <1>3, PortalShape DEF PortalTypes
<1>5. \A d \in PCalls : CallRuled(d, icall'[d], locked', cursor')
  BY <1>1, <1>2
<1>6. NoOrphanConsent'
  <2>. SUFFICES ASSUME NEW s \in Sessions, portal'[s] = "started"
                PROVE  s = cached' \/ s \in closing' \/ \E d \in PCalls : icall'[d].sess = s
    BY DEF NoOrphanConsent
  <2>1. s = cached \/ s \in closing \/ \E d \in PCalls : icall[d].sess = s
    BY DEF PortalInv, NoOrphanConsent
  <2>2. ASSUME NEW d \in PCalls, icall[d].sess = s
        PROVE  s \in closing' \/ \E e \in PCalls : icall'[e].sess = s
    BY <1>1, <1>2, <2>2
  <2>. QED
    BY <2>1, <2>2
<1>. QED
  BY <1>4, <1>5, <1>6 DEF PortalInv

LEMMA MoveByHandKeeps ==
  ASSUME PortalInv, MoveByHand
  PROVE  PortalInv'
<1>1. /\ icall' = [c \in PCalls |-> [icall[c] EXCEPT !.off = TRUE]] /\ UNCHANGED <<cached, locked, portal, closing>>
      /\ hand' = hand + 1 /\ cursor' = cursor + 1 /\ hand < MaxHand
  BY DEF MoveByHand
<1>2. \A d \in PCalls : icall'[d] \in PortalCalls /\ icall'[d].sess = icall[d].sess /\ CallRuled(d, icall'[d], locked, cursor')
  <2>. SUFFICES ASSUME NEW d \in PCalls
                PROVE  icall'[d] \in PortalCalls /\ icall'[d].sess = icall[d].sess /\ CallRuled(d, icall'[d], locked, cursor')
    OBVIOUS
  <2>1. PICK y : y = icall'[d]
    OBVIOUS
  <2>2. y = [icall[d] EXCEPT !.off = TRUE] /\ icall[d] \in PortalCalls /\ CallRuled(d, icall[d], locked, cursor)
    BY <1>1, <2>1, PortalShape
  <2>3. y \in PortalCalls /\ y.sess = icall[d].sess /\ CallRuled(d, y, locked, cursor')
    BY <2>2, OffKeeps
  <2>. QED
    BY <2>1, <2>3
<1>3. icall' \in [PCalls -> PortalCalls]
  BY <1>1, <1>2
<1>4. hand' \in 0..MaxHand /\ cursor' \in Int
  BY <1>1, PortalAssumption DEF PortalInv, PortalTypes
<1>5. PortalTypes'
  BY <1>1, <1>3, <1>4, PortalShape DEF PortalInv, PortalTypes
<1>6. NoOrphanConsent'
  BY ZenonT(40), <1>1, <1>2 DEF PortalInv, NoOrphanConsent
<1>. QED
  BY <1>1, <1>2, <1>5, <1>6 DEF PortalInv

LEMMA PlanKeeps ==
  ASSUME PortalInv, NEW c \in PCalls, Plan(c)
  PROVE  PortalInv'
<1>0. icall[c] \in PortalCalls /\ icall[c].op \in Ops /\ CallRuled(c, icall[c], locked, cursor) /\ icall[c].at = "notify"
  BY PortalShape DEF Plan, PortalCalls
<1>1. CASE /\ \E e \in PlansOf(icall[c].op) : icall' = [icall EXCEPT ![c].todo = e]
           /\ UNCHANGED <<cached, locked, portal, closing, cursor, hand>>
  <2>1. PICK e \in PlansOf(icall[c].op) : icall' = [icall EXCEPT ![c].todo = e]
    BY <1>1
  <2>2. e \in Seq(PortalEvents) /\ InTurn(e) /\ (Len(e) > 0 => e[1] \notin {"motion"} \union Aimed)
    BY <1>0, <2>1, PlansInTurn
  <2>3. PICK x : x = [icall[c] EXCEPT !.todo = e]
    OBVIOUS
  <2>4. x \in PortalCalls
    BY <1>0, <2>2, <2>3 DEF PortalCalls
  <2>5. x.todo = e /\ x.at = icall[c].at /\ x.op = icall[c].op /\ x.sess = icall[c].sess
    BY <1>0, <2>3 DEF PortalCalls
  <2>6. icall' = [icall EXCEPT ![c] = x]
    BY <2>1, <2>3, PortalShape
  <2>7. CallRuled(c, x, locked', cursor)
    BY <1>0, <1>1, <2>2, <2>5 DEF CallRuled, HoldsLock, NoSessionYet, OnSpot
  <2>8. \A t \in Sessions : portal'[t] = "started" =>
          t = cached' \/ t \in closing' \/ x.sess = t \/ (portal[t] = "started" /\ t # cached /\ t \notin closing /\ icall[c].sess # t)
    BY <1>1, <2>5
  <2>. QED
    BY ZenonT(40), <1>1, <2>4, <2>6, <2>7, <2>8, PortalShape, OneCallMoves
<1>2. CASE Finish(c, "failed")
  BY <1>2, FinishKeeps
<1>. QED
  BY <1>1, <1>2 DEF Plan

\* The first event of a plan and what is left.
LEMMA EventSent ==
  ASSUME PortalInv, NEW c \in PCalls, icall[c].todo # <<>>
  PROVE  /\ icall[c].todo \in Seq(PortalEvents) /\ Len(icall[c].todo) > 0 /\ Head(icall[c].todo) = icall[c].todo[1]
         /\ InTurn(icall[c].todo) /\ Tail(icall[c].todo) \in Seq(PortalEvents) /\ InTurn(Tail(icall[c].todo))
         /\ Len(Tail(icall[c].todo)) > 0 =>
              /\ Tail(icall[c].todo)[1] = "motion" <=> Head(icall[c].todo) = "refresh"
              /\ Tail(icall[c].todo)[1] \in Aimed => Head(icall[c].todo) \in {"motion"} \union Aimed
<1>1. PICK t : t = icall[c].todo
  OBVIOUS
<1>2. t \in Seq(PortalEvents) /\ InTurn(t)
  BY <1>1, PortalShape DEF CallRuled
<1>3. Len(t) > 0 /\ Head(t) = t[1]
  BY <1>1, <1>2
<1>. QED
  BY <1>1, <1>2, <1>3, RestInTurn

LEMMA RefreshKeeps ==
  ASSUME PortalInv, NEW c \in PCalls, icall[c].todo # <<>>, icall[c].at = "notify",
         Refresh(c), Head(icall[c].todo) = "refresh", UNCHANGED <<cached, locked, portal, closing, hand>>
  PROVE  PortalInv'
<1>0. icall[c] \in PortalCalls /\ CallRuled(c, icall[c], locked, cursor) /\ cursor \in Int
  BY PortalShape DEF PortalTypes
<1>1. PICK t : t = Tail(icall[c].todo)
  OBVIOUS
<1>2. t \in Seq(PortalEvents) /\ InTurn(t) /\ (Len(t) > 0 => t[1] \notin Aimed)
  BY <1>1, EventSent DEF Aimed
<1>3. PICK x : x = [icall[c] EXCEPT !.todo = t, !.saw = cursor, !.off = FALSE]
  OBVIOUS
<1>4. x \in PortalCalls
  BY <1>0, <1>2, <1>3 DEF PortalCalls
<1>5. x.todo = t /\ x.saw = cursor /\ x.at = "notify" /\ x.op = icall[c].op /\ x.sess = icall[c].sess
  BY <1>0, <1>3 DEF PortalCalls
<1>6. icall' = [icall EXCEPT ![c] = x] /\ cursor' = cursor
  BY <1>1, <1>3, PortalShape DEF Refresh
<1>7. CallRuled(c, x, locked', cursor)
  BY <1>0, <1>2, <1>5 DEF CallRuled, HoldsLock, NoSessionYet, OnSpot, Starting, Ended
<1>8. \A s \in Sessions : portal'[s] = "started" =>
        s = cached' \/ s \in closing' \/ x.sess = s \/ (portal[s] = "started" /\ s # cached /\ s \notin closing /\ icall[c].sess # s)
  BY <1>5
<1>. QED
  BY Zenon, <1>4, <1>6, <1>7, <1>8, PortalShape, OneCallMoves

LEMMA MotionKeeps ==
  ASSUME PortalInv, NEW c \in PCalls, icall[c].todo # <<>>, icall[c].at = "notify",
         Motion(c), Head(icall[c].todo) = "motion", UNCHANGED <<cached, locked, portal, closing, hand>>
  PROVE  PortalInv'
<1>0. icall[c] \in PortalCalls /\ CallRuled(c, icall[c], locked, cursor) /\ cursor \in Int /\ Spot[c] \in Int /\ icall[c].saw \in Int
  BY PortalShape, PortalAssumption DEF PortalTypes, PortalCalls
<1>1. PICK t : t = Tail(icall[c].todo)
  OBVIOUS
<1>2. t \in Seq(PortalEvents) /\ InTurn(t) /\ (Len(t) > 0 => t[1] # "motion") /\ icall[c].todo[1] = "motion" /\ Len(icall[c].todo) > 0
  BY <1>1, EventSent
<1>3. PICK x : x = [icall[c] EXCEPT !.todo = t]
  OBVIOUS
<1>4. x \in PortalCalls
  BY <1>0, <1>2, <1>3 DEF PortalCalls
<1>5. x.todo = t /\ x.off = icall[c].off /\ x.at = "notify" /\ x.op = icall[c].op /\ x.sess = icall[c].sess
  BY <1>0, <1>3 DEF PortalCalls
<1>6. icall' = [d \in PCalls |-> IF d = c THEN x ELSE [icall[d] EXCEPT !.off = TRUE]]
  BY <1>1, <1>3 DEF Motion, Disturbs
<1>7. cursor' \in Int /\ cursor' = cursor + (Spot[c] - icall[c].saw)
  BY <1>0 DEF Motion
<1>8. ~icall[c].off => cursor' = Spot[c]
  <2>1. ~icall[c].off => cursor = icall[c].saw
    BY <1>0, <1>2 DEF CallRuled, OnSpot
  <2>. QED
    BY <1>0, <1>7, <2>1
<1>9. CallRuled(c, x, locked, cursor')
  BY <1>0, <1>2, <1>5, <1>8 DEF CallRuled, HoldsLock, NoSessionYet, OnSpot, Starting, Ended
<1>10. closing' \subseteq Sessions /\ closing \subseteq closing' /\ \A s \in Sessions : icall[c].sess = s => x.sess = s \/ s \in closing'
  BY <1>5, PortalShape
<1>. QED
  BY <1>4, <1>6, <1>7, <1>9, <1>10, MotionMoves

LEMMA PressKeeps ==
  ASSUME PortalInv, NEW c \in PCalls, icall[c].todo # <<>>, icall[c].at = "notify",
         icall' = [icall EXCEPT ![c].todo = Tail(@)], UNCHANGED cursor,
         Head(icall[c].todo) \notin {"refresh", "motion"}, UNCHANGED <<cached, locked, portal, closing, hand>>
  PROVE  PortalInv'
<1>0. icall[c] \in PortalCalls /\ CallRuled(c, icall[c], locked, cursor) /\ cursor \in Int
  BY PortalShape DEF PortalTypes
<1>1. PICK t : t = Tail(icall[c].todo)
  OBVIOUS
<1>2. t \in Seq(PortalEvents) /\ InTurn(t) /\ (Len(t) > 0 => t[1] # "motion" /\ (t[1] \in Aimed => icall[c].todo[1] \in Aimed))
      /\ Len(icall[c].todo) > 0
  BY <1>1, EventSent
<1>3. PICK x : x = [icall[c] EXCEPT !.todo = t]
  OBVIOUS
<1>4. x \in PortalCalls
  BY <1>0, <1>2, <1>3 DEF PortalCalls
<1>5. x.todo = t /\ x.off = icall[c].off /\ x.at = "notify" /\ x.op = icall[c].op /\ x.sess = icall[c].sess
  BY <1>0, <1>3 DEF PortalCalls
<1>6. icall' = [icall EXCEPT ![c] = x] /\ cursor' = cursor
  BY <1>1, <1>3, PortalShape
<1>7. CallRuled(c, x, locked', cursor)
  BY <1>0, <1>2, <1>5 DEF CallRuled, HoldsLock, NoSessionYet, OnSpot, Starting, Ended
<1>8. \A s \in Sessions : portal'[s] = "started" =>
        s = cached' \/ s \in closing' \/ x.sess = s \/ (portal[s] = "started" /\ s # cached /\ s \notin closing /\ icall[c].sess # s)
  BY <1>5
<1>. QED
  BY ZenonT(40), <1>4, <1>6, <1>7, <1>8, PortalShape, OneCallMoves

\* The last event of a call: its handle goes.
LEMMA LastKeeps ==
  ASSUME PortalInv, NEW c \in PCalls, icall[c].at = "notify", UNCHANGED <<cached, locked, portal, hand>>,
         icall' = [(IF Head(icall[c].todo) = "motion" THEN Disturbs(c) ELSE icall) EXCEPT
                     ![c] = [@ EXCEPT !.at = "ok", !.sess = 0, !.todo = <<>>]],
         cursor' = IF Head(icall[c].todo) = "motion" THEN cursor + (Spot[c] - icall[c].saw) ELSE cursor,
         closing' = DropSession(icall[c].sess)
  PROVE  PortalInv'
<1>0. icall[c] \in PortalCalls /\ cursor \in Int /\ Spot[c] \in Int /\ icall[c].saw \in Int /\ icall[c].sess \in 0..MaxSessions
      /\ icall \in [PCalls -> PortalCalls]
  BY PortalShape, PortalAssumption DEF PortalTypes, PortalCalls
<1>1. PICK x : x = [icall[c] EXCEPT !.at = "ok", !.sess = 0, !.todo = <<>>]
  OBVIOUS
<1>2. x \in PortalCalls
  <2>1. "ok" \in InputPlaces /\ 0 \in 0..MaxSessions /\ <<>> \in Seq(PortalEvents)
    BY PortalPlaces, PortalShape
  <2>. QED
    BY <1>0, <1>1, <2>1 DEF PortalCalls
<1>3. x.at = "ok" /\ x.sess = 0 /\ x.todo = <<>>
  BY <1>0, <1>1 DEF PortalCalls
<1>4. \A l, p : CallRuled(c, x, l, p)
  BY <1>3 DEF CallRuled, HoldsLock, NoSessionYet, InTurn, OnSpot, Starting
<1>5. closing' \subseteq Sessions /\ closing \subseteq closing' /\ (icall[c].sess # 0 => icall[c].sess \in closing')
  BY <1>0, PortalShape, Dropping
<1>6. CASE Head(icall[c].todo) = "motion"
  <2>1. icall' = [d \in PCalls |-> IF d = c THEN x ELSE [icall[d] EXCEPT !.off = TRUE]]
    BY <1>1, <1>6 DEF Disturbs
  <2>2. cursor' \in Int
    BY <1>0, <1>6
  <2>3. \A s \in Sessions : icall[c].sess = s => x.sess = s \/ s \in closing'
    BY <1>5, PortalShape
  <2>. QED
    BY <1>2, <1>4, <1>5, <2>1, <2>2, <2>3, MotionMoves
<1>7. CASE Head(icall[c].todo) # "motion"
  <2>1. icall' = [icall EXCEPT ![c] = x] /\ cursor' = cursor
    BY <1>0, <1>1, <1>7
  <2>2. \A s \in Sessions : portal'[s] = "started" =>
          s = cached' \/ s \in closing' \/ x.sess = s \/ (portal[s] = "started" /\ s # cached /\ s \notin closing /\ icall[c].sess # s)
    BY <1>3, <1>5, PortalShape
  <2>3. CallRuled(c, x, locked', cursor) /\ cached' \in 0..MaxSessions /\ closing' \subseteq Sessions
        /\ portal' \in [Sessions -> {"none", "created", "started", "closed"}] /\ locked' = locked /\ UNCHANGED hand
    BY <1>4, <1>5, PortalShape
  <2>. QED
    BY <1>0, <1>2, <2>1, <2>2, <2>3, OneCallMoves
<1>. QED
  BY <1>6, <1>7

LEMMA NotifyKeeps ==
  ASSUME PortalInv, NEW c \in PCalls, Notify(c)
  PROVE  PortalInv'
<1>. DEFINE e == Head(icall[c].todo)
<1>0. icall[c].at = "notify" /\ icall[c].todo # <<>>
  BY DEF Notify
<1>1. CASE /\ e # "unknown" /\ Len(icall[c].todo) > 1
           /\ CASE e = "refresh" -> Refresh(c)
                [] e = "motion"  -> Motion(c)
                [] OTHER         -> icall' = [icall EXCEPT ![c].todo = Tail(@)] /\ UNCHANGED cursor
           /\ UNCHANGED <<cached, locked, portal, closing, hand>>
  <2>1. CASE e = "refresh"
    BY <1>0, <1>1, <2>1, RefreshKeeps
  <2>2. CASE e = "motion"
    BY <1>0, <1>1, <2>2, MotionKeeps
  <2>3. CASE e \notin {"refresh", "motion"}
    BY <1>0, <1>1, <2>3, PressKeeps
  <2>. QED
    BY <2>1, <2>2, <2>3
<1>2. CASE /\ icall' = [(IF e = "motion" THEN Disturbs(c) ELSE icall) EXCEPT
                          ![c] = [@ EXCEPT !.at = "ok", !.sess = 0, !.todo = <<>>]]
           /\ cursor' = IF e = "motion" THEN cursor + (Spot[c] - icall[c].saw) ELSE cursor
           /\ closing' = DropSession(icall[c].sess)
           /\ UNCHANGED <<cached, locked, portal, hand>>
  BY <1>0, <1>2, LastKeeps
<1>3. CASE Finish(c, "failed")
  BY <1>3, FinishKeeps
<1>. QED
  BY <1>1, <1>2, <1>3 DEF Notify

LEMMA PortalKeeps ==
  ASSUME PortalInv, PortalNext
  PROVE  PortalInv'
<1>1. CASE \E c \in PCalls : (\E op \in OpsOf[c] : BeginCall(c, op)) \/ EnsureSession(c) \/ Prompt(c) \/ SelectDevices(c)
  BY <1>1, QuietCallKeeps
<1>2. CASE \E c \in PCalls : CreateSession(c)
  BY <1>2, CreateSessionKeeps
<1>3. CASE \E c \in PCalls : StartSession(c)
  BY <1>3, StartSessionKeeps
<1>4. CASE \E c \in PCalls : StorePrompted(c)
  BY <1>4, StorePromptedKeeps
<1>5. CASE \E c \in PCalls : ResponseFails(c) \/ DropRequest(c)
  BY <1>5, FinishKeeps DEF ResponseFails, DropRequest
<1>6. CASE \E c \in PCalls : Plan(c)
  BY <1>6, PlanKeeps
<1>7. CASE \E c \in PCalls : Notify(c)
  BY <1>7, NotifyKeeps
<1>8. CASE \E s \in Sessions : CloseSession(s)
  BY <1>8, CloseSessionKeeps
<1>9. CASE MoveByHand
  BY <1>9, MoveByHandKeeps
<1>. QED
  BY <1>1, <1>2, <1>3, <1>4, <1>5, <1>6, <1>7, <1>8, <1>9 DEF PortalNext

LEMMA PortalRests ==
  ASSUME PortalInv, UNCHANGED portalVars
  PROVE  PortalInv'
BY DEF portalVars, PortalInv, PortalTypes, NoOrphanConsent

LEMMA PortalPromise ==
  ASSUME PortalInv
  PROVE  PortalTypeOK /\ OneConsentAtATime /\ NoOrphanConsent
<1>1. PortalTypeOK
  <2>1. \A c \in PCalls : icall[c].at \in InputPlaces /\ icall[c].sess \in 0..MaxSessions /\ icall[c].op \in Ops
    BY PortalShape DEF PortalCalls
  <2>. QED
    BY <2>1 DEF PortalInv, PortalTypes, PortalTypeOK, InputPlaces
<1>2. OneConsentAtATime
  <2>. DEFINE S == {c \in PCalls : icall[c].op # "prompt" /\ icall[c].at \in Starting}
  <2>1. S \subseteq {locked}
    BY PortalShape DEF CallRuled, HoldsLock
  <2>2. IsFiniteSet({locked}) /\ Cardinality({locked}) = 1
    BY FS_Singleton
  <2>3. Cardinality(S) <= Cardinality({locked})
    BY <2>1, <2>2, FS_Subset
  <2>. QED
    BY <2>2, <2>3 DEF OneConsentAtATime
<1>. QED
  BY <1>1, <1>2 DEF PortalInv

\* A call whose next event is aimed has the pointer where it wants it.
LEMMA OnItsSpot ==
  ASSUME PortalInv, NEW c \in PCalls,
         Len(icall[c].todo) > 0, Head(icall[c].todo) \in {"button", "axis"}, ~icall[c].off
  PROVE  cursor = Spot[c]
<1>1. icall[c].todo # <<>>
  OBVIOUS
<1>2. icall[c].todo[1] \in Aimed /\ Len(icall[c].todo) > 0
  BY <1>1, EventSent DEF Aimed
<1>. QED
  BY <1>2, PortalShape DEF CallRuled, OnSpot

-----------------------------------------------------------------------------
(* A launch on KWin: while no process id is used again, the processes      *)
(* whose line of parents reaches the root are those the launch started,    *)
(* and a window shows whose it is by the id of its process.                *)

Kins == [parent: LPids \union {Init1}, ours: BOOLEAN]
KWinProcs == UNION {[S -> Kins] : S \in SUBSET LPids}
WinRecords == [state: {"none", "open", "gone"}, pid: LPids, ours: BOOLEAN, app: BOOLEAN]
AnyWin == Wins \union {NoWin}
Views == [known: BOOLEAN, open: SUBSET Wins, active: AnyWin]
KLaunches == [at: {"none", "refresh", "match", "strong", "plausible", "failed", "ambiguous"}, pre: SUBSET Wins,
              preActive: AnyWin, multi: BOOLEAN, win: AnyWin, preexisting: BOOLEAN]
Pasts == [open: SUBSET Wins, current: BOOLEAN, used: SUBSET LPids, reused: BOOLEAN]

KWinLaunchTypes ==
  /\ kprocs \in KWinProcs /\ wins \in [Wins -> WinRecords] /\ active \in AnyWin
  /\ view \in Views /\ klaunch \in KLaunches /\ was \in Pasts

\* A process is of the launch exactly when its living parent is; a process whose parent went has init for one.
KinRule(k, u, re) ==
  /\ Root \in u /\ DOMAIN k \subseteq u
  /\ \A p \in DOMAIN k : k[p].parent \in DOMAIN k \union {Init1}
  /\ \A p \in DOMAIN k : k[p].parent \in DOMAIN k => k[p].ours = k[k[p].parent].ours
  /\ ~re /\ Root \in DOMAIN k => k[Root].ours

\* A window is of the launch when its process is, as long as ids are not used again.
WinKin(x, k, u, re) ==
  x.state # "none" => /\ x.pid \in u
                      /\ ~re /\ x.pid \in DOMAIN k => x.ours = k[x.pid].ours
                      /\ ~re /\ x.pid = Root => x.ours

\* What the launch knows and answers.
AnswerRule(l, v, ws, h) ==
  /\ \A w \in v.open : ws[w].state # "none"
  /\ l.at = "strong" => l.win \in Wins /\ ws[l.win].state # "none" /\ (~h.reused => ws[l.win].ours)
  /\ l.at \in {"strong", "plausible"} => (l.preexisting <=> l.win \in l.pre)
  /\ h.current => l.pre = h.open

KWinLaunchInv ==
  /\ KWinLaunchTypes /\ KinRule(kprocs, was.used, was.reused)
  /\ \A w \in Wins : WinKin(wins[w], kprocs, was.used, was.reused)
  /\ AnswerRule(klaunch, view, wins, was)

LEMMA KWinProcsIntro ==
  ASSUME NEW S \in SUBSET LPids, NEW f \in [S -> Kins]
  PROVE  f \in KWinProcs /\ DOMAIN f = S
BY DEF KWinProcs

LEMMA KWinProcsElim ==
  ASSUME NEW f \in KWinProcs
  PROVE  DOMAIN f \subseteq LPids /\ f \in [DOMAIN f -> Kins] /\ \A p \in DOMAIN f : f[p] \in Kins
BY DEF KWinProcs

LEMMA KWinLaunchBegins ==
  ASSUME KWinLaunchInit
  PROVE  KWinLaunchInv
<1>0. {Root, Shell} \subseteq LPids /\ Root # Shell /\ 0 \notin LPids
  BY KWinLaunchAssumption
<1>1. /\ kprocs = [p \in {Shell} |-> [parent |-> Init1, ours |-> FALSE]]
      /\ wins = [w \in Wins |-> [state |-> "none", pid |-> Root, ours |-> FALSE, app |-> FALSE]]
      /\ active = NoWin /\ view = [known |-> FALSE, open |-> {}, active |-> NoWin]
      /\ klaunch = [at |-> "none", pre |-> {}, preActive |-> NoWin, multi |-> FALSE, win |-> NoWin, preexisting |-> FALSE]
      /\ was = [open |-> {}, current |-> FALSE, used |-> {Shell, Root}, reused |-> FALSE]
  BY DEF KWinLaunchInit
<1>2. kprocs \in KWinProcs /\ DOMAIN kprocs = {Shell}
  <2>1. kprocs \in [{Shell} -> Kins] /\ {Shell} \in SUBSET LPids
    BY <1>0, <1>1 DEF Kins
  <2>. QED
    BY <2>1, KWinProcsIntro
<1>3. wins \in [Wins -> WinRecords] /\ \A w \in Wins : wins[w].state = "none"
  BY <1>0, <1>1 DEF WinRecords
<1>4. view \in Views /\ klaunch \in KLaunches /\ was \in Pasts /\ active \in AnyWin
  BY <1>0, <1>1 DEF Views, KLaunches, Pasts, AnyWin
<1>5. was.used = {Shell, Root} /\ ~was.reused /\ ~was.current /\ klaunch.at = "none" /\ view.open = {}
  BY <1>1
<1>6. kprocs[Shell].parent = Init1 /\ Init1 # Shell
  BY <1>0, <1>1 DEF Init1
<1>7. KinRule(kprocs, was.used, was.reused)
  BY <1>0, <1>2, <1>5, <1>6 DEF KinRule
<1>8. \A w \in Wins : WinKin(wins[w], kprocs, was.used, was.reused)
  BY <1>3 DEF WinKin
<1>9. AnswerRule(klaunch, view, wins, was)
  BY <1>5 DEF AnswerRule
<1>. QED
  BY <1>2, <1>3, <1>4, <1>7, <1>8, <1>9 DEF KWinLaunchInv, KWinLaunchTypes

-----------------------------------------------------------------------------
(* The tree ps shows.                                                      *)

\* f is what PidTree looks up: the processes at most i generations below the root, for i up to n.
Grows(n, f) == f = [i \in 0..n |-> IF i = 0 THEN {Root} ELSE WithChildren(f[i - 1])]

LEMMA GrowsExists ==
  ASSUME NEW n \in Nat
  PROVE  \E f : Grows(n, f)
<1>. DEFINE S == {m \in Nat : ~\E f : Grows(m, f)}
<1>1. SUFFICES ASSUME S # {} PROVE FALSE
  OBVIOUS
<1>2. PICK m \in S : \A k \in S : m <= k
  BY <1>1, LeastNumber
<1>3. CASE m = 0
  <2>. DEFINE g == [i \in 0..0 |-> {Root}]
  <2>1. g = [i \in 0..0 |-> IF i = 0 THEN {Root} ELSE WithChildren(g[i - 1])]
    OBVIOUS
  <2>2. Grows(0, g)
    BY <2>1 DEF Grows
  <2>. QED
    BY <1>3, <2>2
<1>4. CASE m # 0
  <2>1. m - 1 \in Nat /\ m - 1 \notin S
    BY <1>2, <1>4
  <2>2. PICK f : Grows(m - 1, f)
    BY <2>1
  <2>. DEFINE g == [i \in 0..m |-> IF i = m THEN WithChildren(f[m - 1]) ELSE f[i]]
  <2>3. \A i \in 0..(m - 1) : g[i] = f[i]
    BY <2>1
  <2>4. g[m] = WithChildren(f[m - 1]) /\ \A i \in 1..m : g[i - 1] = f[i - 1]
    BY <1>4, <2>1, <2>3
  <2>5. \A i \in 0..(m - 1) : f[i] = IF i = 0 THEN {Root} ELSE WithChildren(f[i - 1])
    BY <2>2 DEF Grows
  <2>6. \A i \in 0..m : g[i] = IF i = 0 THEN {Root} ELSE WithChildren(g[i - 1])
    <3>. HIDE DEF g
    <3>. TAKE i \in 0..m
    <3>1. CASE i = m
      BY <1>4, <2>1, <2>4, <3>1
    <3>2. CASE i = 0
      BY <1>4, <2>1, <2>3, <2>5, <3>2
    <3>3. CASE i # m /\ i # 0
      <4>1. i \in 0..(m - 1) /\ i \in 1..m
        BY <2>1, <3>3
      <4>. QED
        BY <2>3, <2>4, <2>5, <3>3, <4>1
    <3>. QED
      BY <3>1, <3>2, <3>3
  <2>. DEFINE h == [i \in 0..m |-> IF i = 0 THEN {Root} ELSE WithChildren(g[i - 1])]
  <2>7. g = h
    <3>1. \A i \in 0..m : g[i] = h[i]
      BY <2>6
    <3>2. g = [i \in 0..m |-> g[i]] /\ h = [i \in 0..m |-> h[i]]
      OBVIOUS
    <3>. HIDE DEF g, h
    <3>. QED
      BY <3>1, <3>2
  <2>8. Grows(m, g)
    BY <2>7 DEF Grows
  <2>. QED
    BY <2>8
<1>. QED
  BY <1>3, <1>4

\* Every process of the tree is the root or one the launch started.
LEMMA TreeIsOfTheLaunch ==
  ASSUME KinRule(kprocs, was.used, was.reused), ~was.reused
  PROVE  \A p \in PidTree : p = Root \/ (p \in DOMAIN kprocs /\ kprocs[p].ours)
<1>. DEFINE N == Cardinality(LPids)
            Fits(S) == \A p \in S : p = Root \/ (p \in DOMAIN kprocs /\ kprocs[p].ours)
            g == CHOOSE f : Grows(N, f)
            Bad == {m \in 0..N : ~Fits(g[m])}
<1>0. N \in Nat /\ Init1 # Root
  BY KWinLaunchAssumption, FS_CardinalityType DEF Init1
<1>1. Grows(N, g)
  BY <1>0, GrowsExists
<1>2. PidTree = g[N]
  BY DEF PidTree, Grows
<1>. HIDE DEF g
<1>3. \A i \in 0..N : g[i] = IF i = 0 THEN {Root} ELSE WithChildren(g[i - 1])
  BY <1>1 DEF Grows
<1>4. SUFFICES ASSUME Bad # {} PROVE FALSE
  BY <1>0, <1>2
<1>5. PICK m \in Bad : \A k \in Bad : m <= k
  <2>1. Bad \in SUBSET Nat
    BY <1>0
  <2>. HIDE DEF Bad
  <2>. QED
    BY <1>4, <2>1, LeastNumber
<1>6. CASE m = 0
  BY <1>0, <1>3, <1>5, <1>6
<1>7. CASE m # 0
  <2>1. m - 1 \in 0..N /\ m - 1 \notin Bad
    BY <1>0, <1>5, <1>7
  <2>2. Fits(g[m - 1]) /\ g[m] = WithChildren(g[m - 1])
    BY <1>3, <1>5, <1>7, <2>1
  <2>3. ASSUME NEW p \in DOMAIN kprocs, ParentOf(p) \in g[m - 1] PROVE kprocs[p].ours
    <3>1. kprocs[p].parent \in DOMAIN kprocs
      BY <1>0, <2>2, <2>3 DEF ParentOf, KinRule
    <3>2. kprocs[kprocs[p].parent].ours
      BY <2>2, <2>3, <3>1 DEF ParentOf, KinRule
    <3>. QED
      BY <3>1, <3>2 DEF KinRule
  <2>4. Fits(g[m])
    BY <2>2, <2>3 DEF WithChildren
  <2>. QED
    BY <1>5, <2>4
<1>. QED
  BY <1>6, <1>7

-----------------------------------------------------------------------------
(* The steps of a launch on KWin.                                          *)

LEMMA KLaunchShape ==
  ASSUME KWinLaunchInv
  PROVE  /\ kprocs \in KWinProcs /\ DOMAIN kprocs \subseteq LPids /\ \A p \in DOMAIN kprocs : kprocs[p] \in Kins
         /\ wins \in [Wins -> WinRecords] /\ active \in AnyWin /\ view \in Views /\ klaunch \in KLaunches /\ was \in Pasts
         /\ \A w \in Wins : wins[w] \in WinRecords
         /\ view.open \subseteq Wins /\ view.active \in AnyWin /\ klaunch.pre \subseteq Wins /\ OpenWins \subseteq Wins
         /\ Published \in Views /\ Published.open = OpenWins
<1>1. KWinLaunchTypes
  BY DEF KWinLaunchInv
<1>2. view.open \subseteq Wins /\ view.active \in AnyWin /\ klaunch.pre \subseteq Wins
  BY <1>1 DEF KWinLaunchTypes, Views, KLaunches
<1>3. Published \in Views /\ Published.open = OpenWins /\ OpenWins \subseteq Wins
  BY <1>1 DEF KWinLaunchTypes, Views, Published, OpenWins
<1>4. \A w \in Wins : wins[w] \in WinRecords
  BY <1>1 DEF KWinLaunchTypes
<1>. QED
  BY <1>1, <1>2, <1>3, <1>4, KWinProcsElim DEF KWinLaunchTypes

\* A step of the launch itself: processes and windows stay.
LEMMA LaunchAdvances ==
  ASSUME KWinLaunchInv, NEW l \in KLaunches, NEW v \in Views, klaunch' = l, view' = v,
         UNCHANGED <<kprocs, wins, active, was>>, AnswerRule(l, v, wins, was)
  PROVE  KWinLaunchInv'
<1>1. KWinLaunchTypes'
  BY DEF KWinLaunchInv, KWinLaunchTypes
<1>2. KinRule(kprocs', was'.used, was'.reused) /\ \A w \in Wins : WinKin(wins'[w], kprocs', was'.used, was'.reused)
  BY DEF KWinLaunchInv
<1>3. AnswerRule(klaunch', view', wins', was')
  OBVIOUS
<1>. QED
  BY <1>1, <1>2, <1>3 DEF KWinLaunchInv

\* What a snapshot shows has been opened.
LEMMA OpenIsThere ==
  ASSUME NEW w \in OpenWins
  PROVE  wins[w].state # "none"
BY DEF OpenWins

LEMMA RefreshViewKeeps ==
  ASSUME KWinLaunchInv, RefreshView \/ Publish \/ SpawnFails
  PROVE  KWinLaunchInv'
<1>0. AnswerRule(klaunch, view, wins, was) /\ klaunch \in KLaunches /\ was \in Pasts /\ UNCHANGED <<kprocs, wins, active, was>>
  BY KLaunchShape DEF KWinLaunchInv, RefreshView, Publish, SpawnFails
<1>1. PICK v : v = view'
  OBVIOUS
<1>2. v \in {view, Published}
  BY <1>1 DEF RefreshView, Publish, SpawnFails
<1>3. v \in Views /\ \A w \in v.open : wins[w].state # "none"
  BY <1>0, <1>2, KLaunchShape, OpenIsThere DEF AnswerRule
<1>4. CASE Publish
  <2>1. klaunch' = klaunch
    BY <1>4 DEF Publish
  <2>2. AnswerRule(klaunch, v, wins, was)
    BY <1>0, <1>3 DEF AnswerRule
  <2>. QED
    BY <1>0, <1>1, <1>3, <2>1, <2>2, LaunchAdvances
<1>5. CASE RefreshView \/ SpawnFails
  <2>1. PICK a \in {"match", "failed"} : klaunch' = [klaunch EXCEPT !.at = a]
    BY <1>5 DEF RefreshView, SpawnFails
  <2>2. PICK l : l = [klaunch EXCEPT !.at = a]
    OBVIOUS
  <2>3. l \in KLaunches
    BY <1>0, <2>1, <2>2 DEF KLaunches
  <2>4. l.at = a /\ l.pre = klaunch.pre
    BY <1>0, <2>2 DEF KLaunches
  <2>5. AnswerRule(l, v, wins, was)
    BY <1>0, <1>3, <2>1, <2>4 DEF AnswerRule
  <2>. QED
    BY <1>0, <1>1, <1>3, <2>1, <2>2, <2>3, <2>5, LaunchAdvances
<1>. QED
  BY <1>4, <1>5

\* The window of a strong match is of the launch.
LEMMA MatchIsOurs ==
  ASSUME KWinLaunchInv, NEW w \in NewPidTreeMatches
  PROVE  w \in Wins /\ wins[w].state # "none" /\ (~was.reused => wins[w].ours)
<1>1. w \in view.open /\ wins[w].pid \in PidTree /\ w \in Wins
  BY KLaunchShape DEF NewPidTreeMatches
<1>2. wins[w].state # "none" /\ WinKin(wins[w], kprocs, was.used, was.reused) /\ KinRule(kprocs, was.used, was.reused)
  BY <1>1 DEF KWinLaunchInv, AnswerRule
<1>3. ASSUME ~was.reused PROVE wins[w].ours
  <2>1. wins[w].pid = Root \/ (wins[w].pid \in DOMAIN kprocs /\ kprocs[wins[w].pid].ours)
    BY <1>1, <1>2, <1>3, TreeIsOfTheLaunch
  <2>. QED
    BY <1>2, <1>3, <2>1 DEF WinKin
<1>. QED
  BY <1>1, <1>2, <1>3

LEMMA CorrelateKeeps ==
  ASSUME KWinLaunchInv, Correlate
  PROVE  KWinLaunchInv'
<1>0. AnswerRule(klaunch, view, wins, was) /\ klaunch \in KLaunches /\ view \in Views /\ view' = view
      /\ UNCHANGED <<kprocs, wins, active, was>>
  BY KLaunchShape DEF KWinLaunchInv, Correlate
<1>1. ASSUME NEW a \in {"strong", "plausible"}, NEW w \in Wins, klaunch' = Outcome(a, w),
             a = "strong" => wins[w].state # "none" /\ (~was.reused => wins[w].ours)
      PROVE  KWinLaunchInv'
  <2>1. PICK l : l = [klaunch EXCEPT !.at = a, !.win = w, !.preexisting = w \in klaunch.pre]
    OBVIOUS
  <2>2. l \in KLaunches
    <3>1. (w \in klaunch.pre) \in BOOLEAN /\ w \in AnyWin
      BY DEF AnyWin
    <3>. QED
      BY <1>0, <2>1, <3>1 DEF KLaunches
  <2>3. l.at = a /\ l.win = w /\ l.pre = klaunch.pre
    BY <1>0, <2>1 DEF KLaunches
  <2>4. l.preexisting = (w \in klaunch.pre)
    BY <1>0, <2>1 DEF KLaunches
  <2>5. AnswerRule(l, view, wins, was)
    BY <1>0, <1>1, <2>3, <2>4 DEF AnswerRule
  <2>6. klaunch' = l
    BY <1>1, <2>1 DEF Outcome
  <2>. QED
    BY <1>0, <2>2, <2>5, <2>6, LaunchAdvances
<1>2. CASE \E w \in NewPidTreeMatches : klaunch' = Outcome("strong", w)
  BY <1>1, <1>2, MatchIsOurs
<1>3. CASE \E w \in ActiveAppMatch : klaunch' = Outcome("plausible", w)
  BY <1>1, <1>3 DEF ActiveAppMatch
<1>4. CASE \E a \in {"refresh", "ambiguous", "failed"}, u \in BOOLEAN : klaunch' = [klaunch EXCEPT !.at = a, !.multi = u]
  <2>1. PICK a \in {"refresh", "ambiguous", "failed"}, u \in BOOLEAN : klaunch' = [klaunch EXCEPT !.at = a, !.multi = u]
    BY <1>4
  <2>2. PICK l : l = [klaunch EXCEPT !.at = a, !.multi = u]
    OBVIOUS
  <2>3. l \in KLaunches
    BY <1>0, <2>1, <2>2 DEF KLaunches
  <2>4. l.at = a /\ l.pre = klaunch.pre
    BY <1>0, <2>2 DEF KLaunches
  <2>5. AnswerRule(l, view, wins, was)
    BY <1>0, <2>1, <2>4 DEF AnswerRule
  <2>. QED
    BY <1>0, <2>1, <2>2, <2>3, <2>5, LaunchAdvances
<1>5. PICK u : u = (klaunch.multi \/ Cardinality(NewPidTreeMatches) > 1)
  OBVIOUS
<1>6. u \in BOOLEAN
  BY <1>5
<1>7. \/ \E w \in NewPidTreeMatches : klaunch' = Outcome("strong", w)
      \/ \E w \in ActiveAppMatch : klaunch' = Outcome("plausible", w)
      \/ klaunch' = [klaunch EXCEPT !.at = "refresh", !.multi = u]
      \/ klaunch' = [klaunch EXCEPT !.at = IF u THEN "ambiguous" ELSE "failed", !.multi = u]
  BY <1>5 DEF Correlate
<1>8. \/ \E w \in NewPidTreeMatches : klaunch' = Outcome("strong", w)
      \/ \E w \in ActiveAppMatch : klaunch' = Outcome("plausible", w)
      \/ klaunch' = [klaunch EXCEPT !.at = "refresh", !.multi = u]
      \/ klaunch' = [klaunch EXCEPT !.at = "ambiguous", !.multi = u]
      \/ klaunch' = [klaunch EXCEPT !.at = "failed", !.multi = u]
  BY <1>6, <1>7
<1>. QED
  BY <1>2, <1>3, <1>4, <1>6, <1>8

LEMMA BeginLaunchKeeps ==
  ASSUME KWinLaunchInv, BeginLaunch
  PROVE  KWinLaunchInv'
<1>0. /\ klaunch.at = "none" /\ Root \notin DOMAIN kprocs /\ UNCHANGED <<wins, active, view>>
      /\ klaunch' = [klaunch EXCEPT !.at = "refresh", !.pre = view.open, !.preActive = view.active]
      /\ was' = [was EXCEPT !.open = OpenWins, !.current = (view = Published)]
      /\ kprocs' = [p \in DOMAIN kprocs \union {Root} |->
                     IF p = Root THEN [parent |-> Init1, ours |-> TRUE] ELSE kprocs[p]]
  BY DEF BeginLaunch, WindowIds
<1>1. {Root} \subseteq LPids /\ Root # Init1
  BY KWinLaunchAssumption DEF Init1
<1>2. kprocs' \in KWinProcs /\ DOMAIN kprocs' = DOMAIN kprocs \union {Root}
  <2>1. DOMAIN kprocs \union {Root} \in SUBSET LPids
    BY <1>1, KLaunchShape
  <2>2. kprocs' \in [DOMAIN kprocs \union {Root} -> Kins]
    BY <1>0, <1>1, KLaunchShape DEF Kins
  <2>. QED
    BY <2>1, <2>2, KWinProcsIntro
<1>3. kprocs'[Root] = [parent |-> Init1, ours |-> TRUE] /\ \A p \in DOMAIN kprocs : kprocs'[p] = kprocs[p]
  BY <1>0
<1>4. klaunch' \in KLaunches
  BY <1>0, KLaunchShape DEF KLaunches
<1>5. klaunch'.at = "refresh" /\ klaunch'.pre = view.open
  BY <1>0, KLaunchShape DEF KLaunches
<1>6. was' \in Pasts
  BY <1>0, KLaunchShape DEF Pasts
<1>7. was'.used = was.used /\ was'.reused = was.reused /\ was'.open = OpenWins /\ (was'.current => view = Published)
  BY <1>0, KLaunchShape DEF Pasts
<1>8. KinRule(kprocs, was.used, was.reused) /\ (\A w \in Wins : WinKin(wins[w], kprocs, was.used, was.reused))
      /\ AnswerRule(klaunch, view, wins, was)
  BY DEF KWinLaunchInv
<1>9. KinRule(kprocs', was'.used, was'.reused)
  <2>1. kprocs'[Root].parent = Init1 /\ kprocs'[Root].ours
    BY <1>3
  <2>2. Root \in was.used /\ DOMAIN kprocs' \subseteq was.used
    BY <1>2, <1>8 DEF KinRule
  <2>3. Init1 \notin DOMAIN kprocs'
    BY <1>2, KWinProcsElim, KWinLaunchAssumption DEF Init1
  <2>4. \A p \in DOMAIN kprocs : /\ kprocs'[p].parent \in DOMAIN kprocs' \union {Init1}
                                 /\ kprocs'[p].parent \in DOMAIN kprocs' => kprocs'[p].ours = kprocs'[kprocs'[p].parent].ours
    BY <1>2, <1>3, <1>8, <2>3 DEF KinRule
  <2>. QED
    BY <1>2, <1>7, <2>1, <2>2, <2>3, <2>4 DEF KinRule
<1>10. \A w \in Wins : WinKin(wins'[w], kprocs', was'.used, was'.reused)
  BY <1>0, <1>2, <1>3, <1>7, <1>8 DEF WinKin
<1>11. AnswerRule(klaunch', view', wins', was')
  BY <1>0, <1>5, <1>7, <1>8, KLaunchShape DEF AnswerRule
<1>12. KWinLaunchTypes'
  BY <1>0, <1>2, <1>4, <1>6, KLaunchShape DEF KWinLaunchTypes
<1>. QED
  BY <1>9, <1>10, <1>11, <1>12 DEF KWinLaunchInv

LEMMA ForkProcessKeeps ==
  ASSUME KWinLaunchInv, NEW parent \in LPids, NEW p \in LPids, ForkProcess(parent, p)
  PROVE  KWinLaunchInv'
<1>0. /\ p \notin DOMAIN kprocs /\ parent \in DOMAIN kprocs /\ UNCHANGED <<wins, active, view, klaunch>>
      /\ kprocs' = [q \in DOMAIN kprocs \union {p} |->
                     IF q = p THEN [parent |-> parent, ours |-> kprocs[parent].ours] ELSE kprocs[q]]
      /\ was' = [was EXCEPT !.reused = @ \/ p \in was.used, !.used = @ \union {p}]
  BY DEF ForkProcess
<1>1. kprocs[parent] \in Kins /\ kprocs[parent].ours \in BOOLEAN /\ was \in Pasts
  BY <1>0, KLaunchShape DEF Kins
<1>2. kprocs' \in KWinProcs /\ DOMAIN kprocs' = DOMAIN kprocs \union {p}
  <2>1. DOMAIN kprocs \union {p} \in SUBSET LPids
    BY KLaunchShape
  <2>2. kprocs' \in [DOMAIN kprocs \union {p} -> Kins]
    BY <1>0, <1>1, KLaunchShape DEF Kins
  <2>. QED
    BY <2>1, <2>2, KWinProcsIntro
<1>3. /\ kprocs'[p].parent = parent /\ kprocs'[p].ours = kprocs[parent].ours
      /\ \A q \in DOMAIN kprocs : kprocs'[q] = kprocs[q]
  BY <1>0
<1>4. was' \in Pasts
  <2>1. was.used \union {p} \in SUBSET LPids /\ (was.reused \/ p \in was.used) \in BOOLEAN
    BY <1>1 DEF Pasts
  <2>. QED
    BY <1>0, <1>1, <2>1 DEF Pasts
<1>5. was'.used = was.used \union {p} /\ was'.open = was.open /\ was'.current = was.current
  BY <1>0, <1>1 DEF Pasts
<1>6. was'.reused = (was.reused \/ p \in was.used)
  BY <1>0, <1>1 DEF Pasts
<1>7. KinRule(kprocs, was.used, was.reused) /\ (\A w \in Wins : WinKin(wins[w], kprocs, was.used, was.reused))
      /\ AnswerRule(klaunch, view, wins, was)
  BY DEF KWinLaunchInv
<1>8. KinRule(kprocs', was'.used, was'.reused)
  <2>1. Root \in was'.used /\ DOMAIN kprocs' \subseteq was'.used
    BY <1>2, <1>5, <1>7 DEF KinRule
  <2>2. Init1 \notin DOMAIN kprocs'
    BY <1>2, KWinProcsElim, KWinLaunchAssumption DEF Init1
  <2>3. \A q \in DOMAIN kprocs : /\ kprocs'[q].parent \in DOMAIN kprocs' \union {Init1}
                                 /\ kprocs'[q].parent \in DOMAIN kprocs' => kprocs'[q].ours = kprocs'[kprocs'[q].parent].ours
    BY <1>2, <1>3, <1>7, <2>2 DEF KinRule
  <2>4. kprocs'[p].parent \in DOMAIN kprocs' /\ kprocs'[p].ours = kprocs'[kprocs'[p].parent].ours
    BY <1>0, <1>2, <1>3
  <2>5. ~was'.reused /\ Root \in DOMAIN kprocs' => kprocs'[Root].ours
    BY <1>2, <1>3, <1>6, <1>7 DEF KinRule
  <2>. QED
    BY <1>2, <2>1, <2>3, <2>4, <2>5 DEF KinRule
<1>9. \A w \in Wins : WinKin(wins'[w], kprocs', was'.used, was'.reused)
  BY Zenon, <1>0, <1>2, <1>3, <1>5, <1>6, <1>7 DEF WinKin
<1>10. AnswerRule(klaunch', view', wins', was')
  BY <1>0, <1>5, <1>6, <1>7 DEF AnswerRule
<1>11. KWinLaunchTypes'
  BY <1>0, <1>2, <1>4, KLaunchShape DEF KWinLaunchTypes
<1>. QED
  BY <1>8, <1>9, <1>10, <1>11 DEF KWinLaunchInv

\* A window that has been opened keeps whose it is.
LEMMA WindowsStay ==
  ASSUME KWinLaunchInv, wins' \in [Wins -> WinRecords], UNCHANGED <<view, klaunch, was>>,
         \A w \in Wins : wins[w].state # "none" => wins'[w].state # "none" /\ wins'[w].ours = wins[w].ours
  PROVE  AnswerRule(klaunch', view', wins', was')
<1>1. AnswerRule(klaunch, view, wins, was) /\ view.open \subseteq Wins
  BY KLaunchShape DEF KWinLaunchInv
<1>2. \A w \in view.open : wins'[w].state # "none"
  BY <1>1 DEF AnswerRule
<1>3. klaunch.at = "strong" => klaunch.win \in Wins /\ wins'[klaunch.win].state # "none" /\ (~was.reused => wins'[klaunch.win].ours)
  BY <1>1 DEF AnswerRule
<1>. QED
  BY <1>1, <1>2, <1>3 DEF AnswerRule

LEMMA ExitProcessKeeps ==
  ASSUME KWinLaunchInv, NEW p \in LPids, ExitProcess(p)
  PROVE  KWinLaunchInv'
<1>0. /\ p \in DOMAIN kprocs /\ UNCHANGED <<view, klaunch, was>>
      /\ kprocs' = [q \in DOMAIN kprocs \ {p} |-> IF kprocs[q].parent = p THEN [kprocs[q] EXCEPT !.parent = Init1] ELSE kprocs[q]]
      /\ wins' = [w \in Wins |-> IF wins[w].state = "open" /\ wins[w].pid = p THEN [wins[w] EXCEPT !.state = "gone"] ELSE wins[w]]
      /\ active' \in {NoWin, active}
  BY DEF ExitProcess
<1>1. \A x \in Kins : [x EXCEPT !.parent = Init1] \in Kins /\ [x EXCEPT !.parent = Init1].ours = x.ours
                      /\ [x EXCEPT !.parent = Init1].parent = Init1
  BY DEF Kins
<1>2. \A q \in DOMAIN kprocs \ {p} :
        /\ kprocs'[q] \in Kins /\ kprocs'[q].ours = kprocs[q].ours
        /\ kprocs'[q].parent = IF kprocs[q].parent = p THEN Init1 ELSE kprocs[q].parent
  BY <1>0, <1>1, KLaunchShape
<1>3. kprocs' \in KWinProcs /\ DOMAIN kprocs' = DOMAIN kprocs \ {p}
  <2>1. DOMAIN kprocs \ {p} \in SUBSET LPids
    BY KLaunchShape
  <2>2. DOMAIN kprocs' = DOMAIN kprocs \ {p}
    BY <1>0
  <2>3. kprocs' = [q \in DOMAIN kprocs \ {p} |-> kprocs'[q]]
    BY <1>0
  <2>4. kprocs' \in [DOMAIN kprocs \ {p} -> Kins]
    BY <1>2, <2>3
  <2>. QED
    BY <2>1, <2>4, KWinProcsIntro
<1>4. \A x \in WinRecords : [x EXCEPT !.state = "gone"] \in WinRecords
  BY DEF WinRecords
<1>5. \A x \in WinRecords : /\ [x EXCEPT !.state = "gone"].state = "gone" /\ [x EXCEPT !.state = "gone"].pid = x.pid
                            /\ [x EXCEPT !.state = "gone"].ours = x.ours
  BY DEF WinRecords
<1>6. \A w \in Wins : /\ wins'[w] \in WinRecords /\ (wins'[w].state # "none" <=> wins[w].state # "none")
                      /\ wins'[w].pid = wins[w].pid /\ wins'[w].ours = wins[w].ours
  BY <1>0, <1>4, <1>5, KLaunchShape
<1>7. wins' \in [Wins -> WinRecords]
  <2>1. wins' = [w \in Wins |-> wins'[w]]
    BY <1>0
  <2>. QED
    BY <1>6, <2>1
<1>8. KinRule(kprocs, was.used, was.reused) /\ (\A w \in Wins : WinKin(wins[w], kprocs, was.used, was.reused))
  BY DEF KWinLaunchInv
<1>9. Init1 \notin DOMAIN kprocs
  BY KLaunchShape, KWinLaunchAssumption DEF Init1
<1>11. KinRule(kprocs', was'.used, was'.reused)
  <2>1. Root \in was'.used /\ DOMAIN kprocs' \subseteq was'.used
    BY <1>0, <1>3, <1>8 DEF KinRule
  <2>2. \A q \in DOMAIN kprocs' : /\ kprocs'[q].parent \in DOMAIN kprocs' \union {Init1}
                                  /\ kprocs'[q].parent \in DOMAIN kprocs' => kprocs'[q].ours = kprocs'[kprocs'[q].parent].ours
    BY <1>2, <1>3, <1>8, <1>9 DEF KinRule
  <2>3. ~was'.reused /\ Root \in DOMAIN kprocs' => kprocs'[Root].ours
    BY <1>0, <1>2, <1>3, <1>8 DEF KinRule
  <2>. QED
    BY <2>1, <2>2, <2>3 DEF KinRule
<1>12. \A w \in Wins : WinKin(wins'[w], kprocs', was'.used, was'.reused)
  BY <1>0, <1>2, <1>3, <1>6, <1>8 DEF WinKin
<1>13. AnswerRule(klaunch', view', wins', was')
  BY <1>0, <1>6, <1>7, WindowsStay
<1>14. KWinLaunchTypes'
  BY <1>0, <1>3, <1>7, KLaunchShape DEF KWinLaunchTypes, AnyWin
<1>. QED
  BY <1>11, <1>12, <1>13, <1>14 DEF KWinLaunchInv

LEMMA ShowWindowKeeps ==
  ASSUME KWinLaunchInv, NEW w \in Wins, NEW p \in LPids, NEW a \in BOOLEAN, ShowWindow(w, p, a)
  PROVE  KWinLaunchInv'
<1>0. /\ wins[w].state = "none" /\ p \in DOMAIN kprocs /\ UNCHANGED <<kprocs, active, view, klaunch, was>>
      /\ wins' = [wins EXCEPT ![w] = [state |-> "open", pid |-> p, ours |-> kprocs[p].ours, app |-> a]]
  BY DEF ShowWindow
<1>1. PICK x : x = [state |-> "open", pid |-> p, ours |-> kprocs[p].ours, app |-> a]
  OBVIOUS
<1>2. kprocs[p] \in Kins /\ kprocs[p].ours \in BOOLEAN
  BY <1>0, KLaunchShape DEF Kins
<1>3. x \in WinRecords /\ x.pid = p /\ x.ours = kprocs[p].ours
  BY <1>1, <1>2 DEF WinRecords
<1>4. wins' \in [Wins -> WinRecords] /\ wins'[w] = x /\ \A v \in Wins : v # w => wins'[v] = wins[v]
  BY <1>0, <1>1, <1>3, KLaunchShape
<1>5. KinRule(kprocs, was.used, was.reused) /\ (\A v \in Wins : WinKin(wins[v], kprocs, was.used, was.reused))
  BY DEF KWinLaunchInv
<1>6. WinKin(x, kprocs, was.used, was.reused)
  BY <1>0, <1>3, <1>5 DEF WinKin, KinRule
<1>7. \A v \in Wins : WinKin(wins'[v], kprocs', was'.used, was'.reused)
  BY <1>0, <1>4, <1>5, <1>6
<1>8. AnswerRule(klaunch', view', wins', was')
  BY <1>0, <1>4, WindowsStay
<1>9. KWinLaunchTypes'
  BY <1>0, <1>4, KLaunchShape DEF KWinLaunchTypes
<1>. QED
  BY <1>0, <1>5, <1>7, <1>8, <1>9 DEF KWinLaunchInv

LEMMA KWinLaunchKeeps ==
  ASSUME KWinLaunchInv, KWinLaunchNext
  PROVE  KWinLaunchInv'
<1>1. CASE BeginLaunch
  BY <1>1, BeginLaunchKeeps
<1>2. CASE RefreshView \/ Publish \/ SpawnFails
  BY <1>2, RefreshViewKeeps
<1>3. CASE Correlate
  BY <1>3, CorrelateKeeps
<1>4. CASE \E p \in LPids : ExitProcess(p) \/ (\E q \in LPids : ForkProcess(q, p))
  BY <1>4, ExitProcessKeeps, ForkProcessKeeps
<1>5. CASE \E w \in Wins : ActivateWindow(w)
  <2>1. active' \in Wins /\ UNCHANGED <<kprocs, wins, view, klaunch, was>>
    BY <1>5 DEF ActivateWindow
  <2>2. KWinLaunchTypes'
    BY <2>1, KLaunchShape DEF KWinLaunchTypes, AnyWin
  <2>. QED
    BY <2>1, <2>2 DEF KWinLaunchInv
<1>6. CASE \E w \in Wins, p \in LPids, a \in BOOLEAN : ShowWindow(w, p, a)
  BY <1>6, ShowWindowKeeps
<1>. QED
  BY <1>1, <1>2, <1>3, <1>4, <1>5, <1>6 DEF KWinLaunchNext

LEMMA KWinLaunchRests ==
  ASSUME KWinLaunchInv, UNCHANGED kwinLaunchVars
  PROVE  KWinLaunchInv'
BY DEF kwinLaunchVars, KWinLaunchInv, KWinLaunchTypes

LEMMA KWinLaunchPromise ==
  ASSUME KWinLaunchInv
  PROVE  KWinLaunchTypeOK /\ ReturnedNewIsNew /\ StrongIsOurs
<1>1. AnswerRule(klaunch, view, wins, was)
  BY DEF KWinLaunchInv
<1>2. ReturnedNewIsNew /\ StrongIsOurs
  BY <1>1 DEF AnswerRule, ReturnedNewIsNew, StrongIsOurs
<1>3. \A p \in DOMAIN kprocs : kprocs[p].parent \in LPids \union {Init1} /\ kprocs[p].ours \in BOOLEAN
  BY KLaunchShape DEF Kins
<1>4. \A w \in Wins : wins[w].state \in {"none", "open", "gone"} /\ wins[w].app \in BOOLEAN
  BY KLaunchShape DEF WinRecords
<1>5. view.known \in BOOLEAN
  BY KLaunchShape DEF Views
<1>6. klaunch.at \in {"none", "refresh", "match", "strong", "plausible", "failed", "ambiguous"} /\ klaunch.win \in AnyWin
  BY KLaunchShape DEF KLaunches
<1>7. KWinLaunchTypeOK
  BY <1>3, <1>4, <1>5, <1>6, KLaunchShape DEF KWinLaunchTypeOK, AnyWin
<1>. QED
  BY <1>2, <1>7

-----------------------------------------------------------------------------
(* A screenshot on KWin: where a byte of the picture is, and what the      *)
(* conversion makes of it.                                                 *)

\* Place x of row y, in rows of w.
LEMMA RowAndPlace ==
  ASSUME NEW w \in Nat, w > 0, NEW y \in Nat, NEW x \in Nat, x < w
  PROVE  (y * w + x) \div w = y /\ (y * w + x) % w = x
<1>. DEFINE n == y * w + x
            q == n \div w
            r == n % w
<1>1. n \in Nat
  OBVIOUS
<1>2. q \in Nat /\ r \in Nat /\ r < w /\ n = w * q + r
  <2>. HIDE DEF n
  <2>. QED
    BY <1>1
<1>. HIDE DEF q, r
<1>3. ~(q > y)
  <2>. SUFFICES ASSUME q >= y + 1 PROVE FALSE
    BY <1>2
  <2>1. w * q >= w * (y + 1)
    BY <1>2
  <2>2. w * (y + 1) = y * w + w
    OBVIOUS
  <2>. QED
    BY <1>2, <2>1, <2>2
<1>4. ~(q < y)
  <2>. SUFFICES ASSUME q + 1 <= y PROVE FALSE
    BY <1>2
  <2>1. w * (q + 1) <= w * y
    BY <1>2
  <2>2. w * (q + 1) = w * q + w /\ w * y = y * w
    BY <1>2
  <2>. QED
    BY <1>2, <2>1, <2>2
<1>5. q = y
  BY <1>2, <1>3, <1>4
<1>6. r = x
  BY <1>2, <1>5
<1>. QED
  BY <1>5, <1>6 DEF q, r

\* What is left of a row of w from place x on, below h rows of it.
LEMMA WithinRows ==
  ASSUME NEW w \in Nat, NEW h \in Nat, NEW y \in Nat, y < h, NEW x \in Nat, x <= w
  PROVE  y * w + x <= w * h
<1>1. y + 1 <= h
  OBVIOUS
<1>2. (y + 1) * w <= h * w
  BY <1>1
<1>3. (y + 1) * w = y * w + w /\ h * w = w * h
  OBVIOUS
<1>. QED
  BY <1>2, <1>3

LEMMA ProductGrows ==
  ASSUME NEW w \in Nat, NEW h \in Nat, NEW k \in Nat, w <= k, h <= k
  PROVE  w * h <= k * k
<1>1. w * h <= k * h
  OBVIOUS
<1>2. k * h <= k * k
  OBVIOUS
<1>3. w * h \in Nat /\ k * h \in Nat /\ k * k \in Nat
  OBVIOUS
<1>. QED
  BY <1>1, <1>2, <1>3

\* The channel that unpremultiply_channel finds is the nearest there is.
LEMMA NearestChannel ==
  ASSUME NEW c \in 0..255, NEW a \in 0..255
  PROVE  Nearest(UnpremultiplyChannel(c, a), c, a)
<1>1. CASE a = 0
  BY <1>1 DEF Nearest, UnpremultiplyChannel
<1>2. CASE a # 0
  <2>. DEFINE h == a \div 2
              n == c * 255 + h
              q == n \div a
              p == q * a
  <2>1. h \in Nat /\ 2 * h <= a /\ a <= 2 * h + 1
    BY <1>2
  <2>. HIDE DEF h
  <2>2. n \in Nat
    BY <2>1
  <2>. HIDE DEF n
  <2>3. q \in Nat /\ p <= n /\ n < p + a
    BY <1>2, <2>2
  <2>4. UnpremultiplyChannel(c, a) = IF q > 255 THEN 255 ELSE q
    BY <1>2 DEF UnpremultiplyChannel, q, n, h
  <2>. HIDE DEF q
  <2>5. p \in Nat
    <3>1. a \in Nat /\ q \in Nat
      BY <2>3
    <3>. QED
      BY <3>1
  <2>6. CASE c > a
    <3>1. q >= 255
      <4>. SUFFICES ASSUME q + 1 <= 255 PROVE FALSE
        BY <2>3
      <4>1. (q + 1) * a <= 255 * a
        BY <2>3
      <4>2. (q + 1) * a = p + a
        BY <2>3
      <4>3. n >= 255 * a
        BY <2>1, <2>6 DEF n
      <4>. QED
        BY <2>2, <2>3, <2>5, <4>1, <4>2, <4>3
    <3>2. UnpremultiplyChannel(c, a) = 255
      BY <2>3, <2>4, <3>1
    <3>. QED
      BY <1>2, <2>6, <3>2 DEF Nearest
  <2>7. CASE ~(c > a)
    <3>1. q <= 255
      <4>. SUFFICES ASSUME q >= 256 PROVE FALSE
        BY <2>3
      <4>1. p >= 256 * a
        BY <2>3
      <4>2. n < 256 * a
        BY <1>2, <2>1, <2>7 DEF n
      <4>. QED
        BY <2>2, <2>3, <2>5, <4>1, <4>2
    <3>2. UnpremultiplyChannel(c, a) = q
      BY <2>3, <2>4, <3>1
    <3>3. 2 * (p - 255 * c) <= a /\ 2 * (255 * c - p) <= a
      <4>. HIDE DEF p
      <4>. QED
        BY <2>1, <2>3, <2>5 DEF n
    <3>4. 2 * (q * a - 255 * c) <= a /\ 2 * (255 * c - q * a) <= a
      BY <3>3
    <3>. QED
      BY <1>2, <2>7, <3>2, <3>4 DEF Nearest
  <2>. QED
    BY <2>6, <2>7
<1>. QED
  BY <1>1, <1>2

Channels == 0..255
Texel4 == [1..4 -> Channels]

\* A picture that KWin may have answered with, all of which came.
GoodMeta(m) == m \in Metas /\ m.width > 0 /\ m.height > 0 /\ m.format \in SupportedFormats /\ m.stride >= m.width * BytesPerPixel(m.format)

LEMMA MetaFields ==
  ASSUME NEW m \in Metas
  PROVE  /\ m.width \in Nat /\ m.height \in Nat /\ m.width <= MaxSide /\ m.height <= MaxSide /\ m.stride \in Nat /\ m.format \in Nat
         /\ MaxSide \in Nat /\ BytesPerPixel(m.format) \in {3, 4} /\ m.width * m.height \in Nat /\ Size(m) \in Nat
<1>1. m.width \in 0..MaxSide /\ m.height \in 0..MaxSide /\ m.stride \in Strides /\ m.format \in Formats /\ MaxSide \in Nat
  BY ShotAssumption DEF Metas
<1>2. m.stride \in Nat /\ m.format \in Nat /\ m.width \in Nat /\ m.height \in Nat
  <2>1. Strides \subseteq Nat /\ Formats \subseteq Nat
    BY ShotAssumption
  <2>2. \A k \in 0..MaxSide : k \in Nat
    BY <1>1
  <2>3. m.stride \in Nat /\ m.format \in Nat
    BY <1>1, <2>1
  <2>4. m.width \in Nat /\ m.height \in Nat
    BY <1>1, <2>2
  <2>. QED
    BY <2>3, <2>4
<1>3. m.width * m.height \in Nat /\ m.stride * m.height \in Nat
  BY <1>2
<1>. QED
  BY <1>1, <1>2, <1>3 DEF BytesPerPixel, Size

LEMMA PixelIsThere ==
  ASSUME NEW m \in Metas, NEW x \in 0..(m.width - 1), NEW y \in 0..(m.height - 1)
  PROVE  /\ x \in Nat /\ y \in Nat /\ y * m.width + x + 1 \in 1..(m.width * m.height)
         /\ Texel(m, x, y) \in Texel4
<1>1. x \in Nat /\ y \in Nat /\ x + 1 <= m.width /\ y < m.height /\ m.width \in Nat /\ m.height \in Nat
  BY MetaFields
<1>2. y * m.width + (x + 1) <= m.width * m.height
  BY <1>1, WithinRows
<1>3. m.width * m.height <= MaxSide * MaxSide
  BY MetaFields, ProductGrows
<1>4. y * m.width \in Nat /\ m.width * m.height \in Nat /\ MaxSide * MaxSide \in Nat
  BY <1>1, MetaFields
<1>5. y * m.width + x + 1 \in 1..(m.width * m.height)
  BY <1>1, <1>2, <1>4
<1>6. Len(Texels) \in Nat /\ Len(Texels) >= MaxSide * MaxSide /\ Texels \in Seq(Texel4)
  BY ShotAssumption DEF Texel4, Channels
<1>7. y * m.width + x + 1 \in 1..Len(Texels)
  BY <1>3, <1>4, <1>5, <1>6
<1>8. Texels[y * m.width + x + 1] \in Texel4
  BY <1>6, <1>7
<1>. QED
  BY <1>1, <1>5, <1>8 DEF Texel

\* The layout has as many bytes as the conversion takes for a pixel.
LEMMA LayoutLength ==
  ASSUME NEW f \in SupportedFormats
  PROVE  Len(Layout(f)) = BytesPerPixel(f) /\ BytesPerPixel(f) \in {3, 4}
<1>1. CASE f = 4
  BY <1>1 DEF Layout, BytesPerPixel
<1>2. CASE f = 5 \/ f = 6
  BY <1>2 DEF Layout, BytesPerPixel
<1>3. CASE f = 13
  BY <1>3 DEF Layout, BytesPerPixel
<1>4. CASE f = 16
  BY <1>4 DEF Layout, BytesPerPixel
<1>5. CASE f = 17 \/ f = 18
  BY <1>5 DEF Layout, BytesPerPixel
<1>6. CASE f = 29
  BY <1>6 DEF Layout, BytesPerPixel
<1>. QED
  BY <1>1, <1>2, <1>3, <1>4, <1>5, <1>6 DEF SupportedFormats

\* Byte j of the pixel at (x, y).
LEMMA ByteOfPixel ==
  ASSUME NEW m, GoodMeta(m), NEW x \in 0..(m.width - 1), NEW y \in 0..(m.height - 1), NEW j \in 1..BytesPerPixel(m.format)
  PROVE  LET at == y * m.stride + x * BytesPerPixel(m.format)
             c == Layout(m.format)[j]
         IN /\ at \in Nat /\ at + j \in 1..Size(m)
            /\ ByteAt(m, at + j - 1) = IF c # 0 THEN Texel(m, x, y)[c] ELSE 170
<1>. DEFINE b == BytesPerPixel(m.format)
            at == y * m.stride + x * b
            k == x * b + (j - 1)
            lay == Layout(m.format)
<1>1. /\ m \in Metas /\ m.width \in Nat /\ m.height \in Nat /\ m.stride \in Nat /\ b \in {3, 4} /\ j - 1 \in Nat /\ j - 1 < b
      /\ x \in Nat /\ y \in Nat /\ x + 1 <= m.width /\ y < m.height /\ m.stride >= m.width * b /\ Len(lay) = b
  <2>1. m \in Metas /\ m.stride >= m.width * b /\ m.format \in SupportedFormats
    BY DEF GoodMeta
  <2>2. m.width \in Nat /\ m.height \in Nat /\ m.stride \in Nat /\ b \in {3, 4}
    BY <2>1, MetaFields
  <2>3. Len(lay) = b
    BY <2>1, LayoutLength
  <2>. HIDE DEF b, lay
  <2>. QED
    BY <2>1, <2>2, <2>3 DEF b
<1>. HIDE DEF b
<1>2. k \in Nat /\ k < m.stride
  <2>1. (x + 1) * b <= m.width * b
    BY <1>1
  <2>2. (x + 1) * b = x * b + b /\ x * b \in Nat
    BY <1>1
  <2>3. m.width * b \in Nat
    BY <1>1
  <2>. QED
    BY <1>1, <2>1, <2>2, <2>3
<1>3. k \div b = x /\ k % b = j - 1
  <2>1. b \in Nat /\ b > 0
    BY <1>1
  <2>. QED
    BY <1>1, <2>1, RowAndPlace
<1>. HIDE DEF k
<1>4. y * m.stride + k = at + j - 1 /\ at \in Nat
  <2>1. PICK r \in Nat, e \in Nat : r = y * m.stride /\ e = x * b
    BY <1>1
  <2>2. k = e + (j - 1) /\ at = r + e
    BY <2>1 DEF k
  <2>3. r + (e + (j - 1)) = r + e + j - 1 /\ r + e \in Nat
    OBVIOUS
  <2>. QED
    BY <2>1, <2>2, <2>3
<1>5. (y * m.stride + k) \div m.stride = y /\ (y * m.stride + k) % m.stride = k
  <2>1. m.stride > 0
    BY <1>1, <1>2
  <2>. QED
    BY <1>1, <1>2, <2>1, RowAndPlace
<1>6. at + j \in 1..Size(m)
  <2>1. y * m.stride + (k + 1) <= m.stride * m.height
    <3>1. k + 1 \in Nat /\ k + 1 <= m.stride
      BY <1>1, <1>2
    <3>. QED
      BY <1>1, <3>1, WithinRows
  <2>2. y * m.stride \in Nat /\ m.stride * m.height \in Nat
    BY SMTT(20), <1>1
  <2>. HIDE DEF at
  <2>. QED
    BY SMTT(20), <1>1, <1>2, <1>4, <2>1, <2>2 DEF Size
<1>. DEFINE i == at + j - 1
<1>7. i \div m.stride = y /\ i % m.stride = k
  BY <1>4, <1>5
<1>. HIDE DEF i, at, lay
<1>8. ByteAt(m, i) = IF k \div b < m.width /\ lay[(k % b) + 1] # 0 THEN Texel(m, k \div b, y)[lay[(k % b) + 1]] ELSE 170
  BY <1>1, <1>7 DEF ByteAt, lay
<1>9. (j - 1) + 1 = j /\ x < m.width
  BY <1>1
<1>10. ByteAt(m, i) = IF lay[j] # 0 THEN Texel(m, x, y)[lay[j]] ELSE 170
  BY <1>3, <1>8, <1>9
<1>. QED
  BY <1>4, <1>6, <1>10 DEF i, at, lay, b

\* The pixel g shows the pixel t of a picture in format f.
Shows(g, t, f) ==
  /\ g[4] = (IF f \in {5, 6, 17, 18} THEN t[4] ELSE 255)
  /\ \A c \in 1..3 : IF f \in {6, 18} THEN Nearest(g[c], t[c], t[4]) ELSE g[c] = t[c]

LEMMA ConvertShows ==
  ASSUME NEW f \in SupportedFormats, NEW t \in Texel4, NEW p,
         \A j \in 1..BytesPerPixel(f) : p[j] = IF Layout(f)[j] # 0 THEN t[Layout(f)[j]] ELSE 170
  PROVE  Shows(Convert(f, p), t, f)
<1>0. t[1] \in 0..255 /\ t[2] \in 0..255 /\ t[3] \in 0..255 /\ t[4] \in 0..255
  BY DEF Texel4, Channels
<1>1. ASSUME NEW r, NEW g, NEW b, NEW a, f \notin {6, 18}, Convert(f, p) = <<r, g, b, a>>, r = t[1], g = t[2], b = t[3],
             a = (IF f \in {5, 17} THEN t[4] ELSE 255)
      PROVE  Shows(Convert(f, p), t, f)
  <2>1. <<r, g, b, a>>[1] = t[1] /\ <<r, g, b, a>>[2] = t[2] /\ <<r, g, b, a>>[3] = t[3]
        /\ <<r, g, b, a>>[4] = (IF f \in {5, 6, 17, 18} THEN t[4] ELSE 255)
    BY <1>1
  <2>2. \A c \in 1..3 : c = 1 \/ c = 2 \/ c = 3
    OBVIOUS
  <2>. QED
    BY <1>1, <2>1, <2>2 DEF Shows
<1>2. ASSUME f \in {6, 18}, Convert(f, p) = Unpremultiply(t[1], t[2], t[3], t[4])
      PROVE  Shows(Convert(f, p), t, f)
  <2>. DEFINE u == Unpremultiply(t[1], t[2], t[3], t[4])
  <2>1. /\ u[1] = UnpremultiplyChannel(t[1], t[4]) /\ u[2] = UnpremultiplyChannel(t[2], t[4])
        /\ u[3] = UnpremultiplyChannel(t[3], t[4]) /\ u[4] = t[4]
    BY Zenon DEF Unpremultiply
  <2>. HIDE DEF u
  <2>2. /\ Nearest(UnpremultiplyChannel(t[1], t[4]), t[1], t[4]) /\ Nearest(UnpremultiplyChannel(t[2], t[4]), t[2], t[4])
        /\ Nearest(UnpremultiplyChannel(t[3], t[4]), t[3], t[4])
    <3>1. \A c, a : c \in 0..255 /\ a \in 0..255 => Nearest(UnpremultiplyChannel(c, a), c, a)
      BY Zenon, NearestChannel
    <3>2. PICK r, g, b, a : r = t[1] /\ g = t[2] /\ b = t[3] /\ a = t[4]
      OBVIOUS
    <3>3. r \in 0..255 /\ g \in 0..255 /\ b \in 0..255 /\ a \in 0..255
      BY <1>0, <3>2
    <3>4. Nearest(UnpremultiplyChannel(r, a), r, a) /\ Nearest(UnpremultiplyChannel(g, a), g, a) /\ Nearest(UnpremultiplyChannel(b, a), b, a)
      BY <3>1, <3>3
    <3>. QED
      BY Zenon, <3>2, <3>4
  <2>3. \A c \in 1..3 : c = 1 \/ c = 2 \/ c = 3
    OBVIOUS
  <2>. QED
    BY <1>2, <2>1, <2>2, <2>3 DEF Shows, u
<1>3. CASE f = 4
  <2>1. p[1] = t[3] /\ p[2] = t[2] /\ p[3] = t[1]
    BY <1>3 DEF Layout, BytesPerPixel
  <2>2. Convert(f, p) = <<p[3], p[2], p[1], 255>>
    BY <1>3 DEF Convert
  <2>. QED
    BY <1>1, <1>3, <2>1, <2>2
<1>4. CASE f = 5
  <2>1. p[1] = t[3] /\ p[2] = t[2] /\ p[3] = t[1] /\ p[4] = t[4]
    BY <1>4 DEF Layout, BytesPerPixel
  <2>2. Convert(f, p) = <<p[3], p[2], p[1], p[4]>>
    BY <1>4 DEF Convert
  <2>. QED
    BY <1>1, <1>4, <2>1, <2>2
<1>5. CASE f = 6
  <2>1. p[1] = t[3] /\ p[2] = t[2] /\ p[3] = t[1] /\ p[4] = t[4]
    BY <1>5 DEF Layout, BytesPerPixel
  <2>2. Convert(f, p) = Unpremultiply(p[3], p[2], p[1], p[4])
    BY <1>5 DEF Convert
  <2>. QED
    BY <1>2, <1>5, <2>1, <2>2
<1>6. CASE f = 13
  <2>1. p[1] = t[1] /\ p[2] = t[2] /\ p[3] = t[3]
    BY <1>6 DEF Layout, BytesPerPixel
  <2>2. Convert(f, p) = <<p[1], p[2], p[3], 255>>
    BY <1>6 DEF Convert
  <2>. QED
    BY <1>1, <1>6, <2>1, <2>2
<1>7. CASE f = 16
  <2>1. p[1] = t[1] /\ p[2] = t[2] /\ p[3] = t[3]
    BY <1>7 DEF Layout, BytesPerPixel
  <2>2. Convert(f, p) = <<p[1], p[2], p[3], 255>>
    BY <1>7 DEF Convert
  <2>. QED
    BY <1>1, <1>7, <2>1, <2>2
<1>8. CASE f = 17
  <2>1. p[1] = t[1] /\ p[2] = t[2] /\ p[3] = t[3] /\ p[4] = t[4]
    BY <1>8 DEF Layout, BytesPerPixel
  <2>2. Convert(f, p) = <<p[1], p[2], p[3], p[4]>>
    BY <1>8 DEF Convert
  <2>. QED
    BY <1>1, <1>8, <2>1, <2>2
<1>9. CASE f = 18
  <2>1. p[1] = t[1] /\ p[2] = t[2] /\ p[3] = t[3] /\ p[4] = t[4]
    BY <1>9 DEF Layout, BytesPerPixel
  <2>2. Convert(f, p) = Unpremultiply(p[1], p[2], p[3], p[4])
    BY <1>9 DEF Convert
  <2>. QED
    BY <1>2, <1>9, <2>1, <2>2
<1>10. CASE f = 29
  <2>1. p[1] = t[3] /\ p[2] = t[2] /\ p[3] = t[1]
    BY <1>10 DEF Layout, BytesPerPixel
  <2>2. Convert(f, p) = <<p[3], p[2], p[1], 255>>
    BY <1>10 DEF Convert
  <2>. QED
    BY <1>1, <1>10, <2>1, <2>2
<1>. QED
  BY <1>3, <1>4, <1>5, <1>6, <1>7, <1>8, <1>9, <1>10 DEF SupportedFormats

\* g is the picture of m.
IsPicture(g, m) ==
  /\ Len(g) = m.width * m.height
  /\ \A x \in 0..(m.width - 1), y \in 0..(m.height - 1) : Shows(g[y * m.width + x + 1], Texel(m, x, y), m.format)

\* What is cut out of the bytes for the pixel at (x, y) shows it.
LEMMA CutShows ==
  ASSUME NEW m, GoodMeta(m), NEW x \in 0..(m.width - 1), NEW y \in 0..(m.height - 1),
         NEW at \in Nat, at = y * m.stride + x * BytesPerPixel(m.format)
  PROVE  Shows(Convert(m.format, SubSeq(Raw(m, Size(m)), at + 1, at + BytesPerPixel(m.format))), Texel(m, x, y), m.format)
<1>. DEFINE b == BytesPerPixel(m.format)
            raw == Raw(m, Size(m))
            p == SubSeq(raw, at + 1, at + b)
<1>1. m \in Metas /\ m.format \in SupportedFormats /\ b \in {3, 4} /\ Size(m) \in Nat
  BY MetaFields DEF GoodMeta
<1>2. Texel(m, x, y) \in Texel4
  BY <1>1, PixelIsThere
<1>. HIDE DEF b
<1>3. \A j \in 1..b : /\ at + j \in 1..Size(m)
                      /\ ByteAt(m, at + j - 1) = IF Layout(m.format)[j] # 0 THEN Texel(m, x, y)[Layout(m.format)[j]] ELSE 170
  BY ByteOfPixel DEF b
<1>4. \A i \in 1..Size(m) : raw[i] = ByteAt(m, i - 1)
  BY DEF Raw
<1>. HIDE DEF raw
<1>5. \A j \in 1..b : p[j] = raw[at + j]
  <2>1. \A i \in (at + 1)..(at + b) : raw[i] \in {raw[k] : k \in (at + 1)..(at + b)}
    OBVIOUS
  <2>2. at + 1 \in Int /\ at + b \in Int /\ (at + b) - (at + 1) + 1 = b
    BY <1>1
  <2>3. \A j \in 1..((at + b) - (at + 1) + 1) : p[j] = raw[(at + 1) + j - 1]
    BY <2>1, <2>2, SubSeqProperties
  <2>4. \A j \in 1..b : (at + 1) + j - 1 = at + j
    BY <1>1
  <2>. HIDE DEF p
  <2>. QED
    BY <2>2, <2>3, <2>4
<1>. HIDE DEF p
<1>6. \A j \in 1..b : p[j] = IF Layout(m.format)[j] # 0 THEN Texel(m, x, y)[Layout(m.format)[j]] ELSE 170
  <2>. TAKE j \in 1..b
  <2>1. at + j \in 1..Size(m) /\ p[j] = raw[at + j]
    BY <1>3, <1>5
  <2>2. raw[at + j] = ByteAt(m, at + j - 1)
    BY <1>4, <2>1
  <2>. QED
    BY <1>3, <2>1, <2>2
<1>7. Shows(Convert(m.format, p), Texel(m, x, y), m.format)
  BY <1>1, <1>2, <1>6, ConvertShows DEF b
<1>. QED
  BY <1>7 DEF p, raw, b

LEMMA ListLength ==
  ASSUME NEW n \in Nat, NEW S, NEW f \in [1..n -> S]
  PROVE  f \in Seq(S) /\ Len(f) = n
<1>1. f \in Seq(S)
  BY SeqDef
<1>. QED
  BY <1>1

\* All bytes of the picture came: the conversion gives the picture, or refuses.
LEMMA WholePicture ==
  ASSUME NEW m \in Metas, NEW n \in Nat, n <= Size(m)
  PROVE  LET out == KwinRawToRgba(Raw(m, n), m)
         IN /\ out = Refused \/ (out.ok /\ IsPicture(out.rgba, m))
            /\ out # Crashed
<1>. DEFINE raw == Raw(m, n)
            out == KwinRawToRgba(raw, m)
            b == BytesPerPixel(m.format)
            w == m.width
            h == m.height
            A(i) == ((i - 1) \div w) * m.stride + ((i - 1) % w) * b
            g == [i \in 1..(w * h) |-> Convert(m.format, SubSeq(raw, A(i) + 1, A(i) + b))]
<1>1. w \in Nat /\ h \in Nat /\ m.stride \in Nat /\ b \in {3, 4} /\ w * h \in Nat /\ Size(m) \in Nat
  BY MetaFields
<1>2. Len(raw) = n
  <2>1. raw \in [1..n -> {ByteAt(m, i - 1) : i \in 1..n}]
    BY DEF Raw
  <2>. HIDE DEF raw
  <2>. QED
    BY <2>1, ListLength
<1>3. Refused # Crashed /\ ~Refused.ok /\ ~Crashed.ok
  BY DEF Refused, Crashed
<1>4. CASE w = 0 \/ h = 0 \/ n < Size(m) \/ m.format \notin SupportedFormats
  <2>1. out = Refused
    BY <1>2, <1>4 DEF KwinRawToRgba
  <2>. QED
    BY <1>3, <2>1
<1>5. CASE ~(w = 0 \/ h = 0 \/ n < Size(m) \/ m.format \notin SupportedFormats)
  <2>1. out = ConvertRows(raw, m) /\ n = Size(m)
    BY <1>1, <1>2, <1>5 DEF KwinRawToRgba
  <2>2. CASE m.stride < w * b
    <3>1. out = Refused
      BY <2>1, <2>2 DEF ConvertRows
    <3>. QED
      BY <1>3, <3>1
  <2>3. CASE ~(m.stride < w * b)
    <3>1. GoodMeta(m)
      BY <1>1, <1>5, <2>3 DEF GoodMeta
    <3>2. \A y \in 0..(h - 1) : ~(y * m.stride + w * b > Len(raw))
      <4>. TAKE y \in 0..(h - 1)
      <4>1. y \in Nat /\ y < h /\ w * b \in Nat /\ w * b <= m.stride
        BY <1>1, <2>3
      <4>2. y * m.stride + w * b <= m.stride * h
        BY <1>1, <4>1, WithinRows
      <4>3. y * m.stride \in Nat /\ m.stride * h \in Nat
        BY <1>1, <4>1
      <4>. QED
        BY <1>1, <1>2, <2>1, <4>1, <4>2, <4>3 DEF Size
    <3>3. out = [ok |-> TRUE, rgba |-> g]
      BY <2>1, <2>3, <3>2 DEF ConvertRows
    <3>4. out.ok /\ out.rgba = g
      BY <3>3
    <3>5. Len(g) = w * h
      <4>1. g \in [1..(w * h) -> {g[i] : i \in 1..(w * h)}]
        OBVIOUS
      <4>. HIDE DEF g
      <4>. QED
        BY <1>1, <4>1, ListLength
    <3>6. ASSUME NEW x \in 0..(w - 1), NEW y \in 0..(h - 1)
          PROVE  Shows(g[y * w + x + 1], Texel(m, x, y), m.format)
      <4>. DEFINE k == y * w + x + 1
      <4>1. x \in Nat /\ y \in Nat /\ k \in 1..(w * h)
        BY <3>6, PixelIsThere
      <4>2. (y * w + x) \div w = y /\ (y * w + x) % w = x
        <5>1. w > 0 /\ x < w
          BY <1>1, <3>6
        <5>. QED
          BY <1>1, <4>1, <5>1, RowAndPlace
      <4>3. k - 1 = y * w + x
        <5>1. y * w \in Nat
          BY <1>1, <4>1
        <5>. QED
          BY <4>1, <5>1
      <4>4. A(k) = y * m.stride + x * b
        BY <4>2, <4>3
      <4>5. A(k) \in Nat
        <5>1. y * m.stride \in Nat /\ x * b \in Nat
          BY <1>1, <4>1
        <5>. QED
          BY <4>4, <5>1
      <4>6. g[k] = Convert(m.format, SubSeq(raw, A(k) + 1, A(k) + b))
        BY <4>1
      <4>7. PICK at \in Nat : at = A(k)
        BY <4>5
      <4>8. Shows(Convert(m.format, SubSeq(raw, at + 1, at + b)), Texel(m, x, y), m.format)
        BY <2>1, <3>1, <3>6, <4>4, <4>7, CutShows
      <4>. QED
        BY <4>6, <4>7, <4>8
    <3>7. IsPicture(out.rgba, m)
      <4>. HIDE DEF g, out
      <4>. QED
        BY <3>4, <3>5, <3>6 DEF IsPicture
    <3>8. out # Crashed
      BY <1>3, <3>4
    <3>. QED
      BY <3>4, <3>7, <3>8
  <2>. QED
    BY <2>2, <2>3
<1>. QED
  BY <1>4, <1>5

-----------------------------------------------------------------------------
(* The screenshot call and the socket.                                     *)

MaybeMeta == Metas \union {NoMeta}
Writers == {"daemon", "kwin"}
ShotPlaces == {"idle", "look", "connect", "call", "read", "over"}
ShotAnswers == {"none", "not_kwin", "no_snapshot", "dead", "no_geometry", "unavailable", "permission", "call_failed",
                "stalled", "unsupported", "ok", "panic", "bad_picture"}
ShotCalls(R) == [pc: ShotPlaces, meta: MaybeMeta, got: Nat, answer: ShotAnswers, rgba: R, writing: SUBSET Writers]
Pipes == [meta: MaybeMeta, sent: Nat, writers: SUBSET Writers]

\* Before the call is answered no shape is known; while it is read only KWin may write; what is answered stands.
ShotRule(s, p) ==
  /\ s.got <= p.sent /\ p.sent <= Size(p.meta)
  /\ s.meta = NoMeta \/ s.meta = p.meta
  /\ s.pc \notin {"read", "over"} => s.meta = NoMeta
  /\ s.pc = "read" => p.writers \subseteq {"kwin"} /\ s.meta \in Metas /\ s.meta = p.meta
  /\ s.pc # "over" => s.answer = "none"
  /\ s.answer # "panic" /\ (s.answer = "stalled" => s.writing = {"kwin"})
  /\ s.answer = "ok" => IsPicture(s.rgba, s.meta)

ShotInv == shot \in ShotCalls({shot.rgba}) /\ pipe \in Pipes /\ ShotRule(shot, pipe)

LEMMA NothingSent ==
  /\ NoMeta.stride = 0 /\ NoMeta.height = 0 /\ NoMeta \in MaybeMeta /\ Size(NoMeta) = 0
  /\ \A m \in MaybeMeta : Size(m) \in Nat
<1>1. NoMeta.stride = 0 /\ NoMeta.height = 0 /\ NoMeta \in MaybeMeta
  BY DEF NoMeta, MaybeMeta
<1>2. Size(NoMeta) = 0
  BY <1>1 DEF Size
<1>3. \A m \in Metas : Size(m) \in Nat
  BY MetaFields
<1>. QED
  BY <1>1, <1>2, <1>3 DEF MaybeMeta

LEMMA ShotBegins ==
  ASSUME ShotInit
  PROVE  ShotInv
<1>1. shot = [pc |-> "idle", meta |-> NoMeta, got |-> 0, answer |-> "none", rgba |-> <<>>, writing |-> {}]
      /\ pipe = [meta |-> NoMeta, sent |-> 0, writers |-> {}]
  BY DEF ShotInit
<1>2. NoMeta \in MaybeMeta /\ Size(NoMeta) = 0
  BY NothingSent
<1>3. shot \in ShotCalls({<<>>}) /\ shot.rgba = <<>> /\ pipe \in Pipes
  BY <1>1, <1>2 DEF ShotCalls, Pipes, ShotPlaces, ShotAnswers
<1>4. shot.pc = "idle" /\ shot.meta = NoMeta /\ shot.got = 0 /\ shot.answer = "none" /\ pipe.meta = NoMeta /\ pipe.sent = 0
  BY <1>1
<1>5. ShotRule(shot, pipe)
  BY <1>2, <1>4 DEF ShotRule
<1>. QED
  BY <1>3, <1>5 DEF ShotInv

\* The call goes on, the socket is as it was or has lost a writer, and nothing is answered.
LEMMA ShotShape ==
  ASSUME ShotInv
  PROVE  /\ shot \in ShotCalls({shot.rgba}) /\ pipe \in Pipes /\ ShotRule(shot, pipe)
         /\ shot.got \in Nat /\ pipe.sent \in Nat /\ pipe.meta \in MaybeMeta /\ pipe.writers \subseteq Writers /\ Size(pipe.meta) \in Nat
         /\ shot.pc \in ShotPlaces /\ shot.meta \in MaybeMeta
BY NothingSent DEF ShotInv, ShotCalls, Pipes

\* The call is answered, not with a picture.
LEMMA AnswerKeeps ==
  ASSUME ShotInv, NEW a \in ShotAnswers \ {"none", "panic", "ok", "stalled"}, shot.pc # "over", shot' = ShotAnswer(a),
         pipe' = pipe \/ pipe' = [pipe EXCEPT !.writers = @ \ {"daemon"}]
  PROVE  ShotInv'
<1>1. PICK R : R = {shot.rgba}
  OBVIOUS
<1>2. shot \in ShotCalls(R) /\ ShotRule(shot, pipe) /\ pipe \in Pipes
  BY <1>1, ShotShape
<1>3. PICK x : x = [shot EXCEPT !.pc = "over", !.answer = a]
  OBVIOUS
<1>4. x \in ShotCalls(R)
  BY <1>2, <1>3 DEF ShotCalls, ShotPlaces
<1>5. x.pc = "over" /\ x.answer = a /\ x.got = shot.got /\ x.meta = shot.meta /\ x.rgba = shot.rgba
  BY <1>2, <1>3 DEF ShotCalls
<1>6. pipe' \in Pipes /\ pipe'.sent = pipe.sent /\ pipe'.meta = pipe.meta
  BY <1>2 DEF Pipes
<1>7. ShotRule(x, pipe')
  BY <1>2, <1>5, <1>6 DEF ShotRule
<1>8. shot' = x
  BY <1>3 DEF ShotAnswer
<1>. QED
  BY <1>1, <1>4, <1>5, <1>6, <1>7, <1>8 DEF ShotInv

\* The call goes on, nothing known yet.
LEMMA GoesOnKeeps ==
  ASSUME ShotInv, NEW p \in {"look", "connect", "call"}, shot.pc \in {"idle", "look", "connect"}, shot' = [shot EXCEPT !.pc = p],
         pipe' = pipe \/ pipe' = [pipe EXCEPT !.writers = {"daemon"}]
  PROVE  ShotInv'
<1>1. PICK R : R = {shot.rgba}
  OBVIOUS
<1>2. shot \in ShotCalls(R) /\ ShotRule(shot, pipe) /\ pipe \in Pipes
  BY <1>1, ShotShape
<1>3. PICK x : x = [shot EXCEPT !.pc = p]
  OBVIOUS
<1>4. x \in ShotCalls(R)
  BY <1>2, <1>3 DEF ShotCalls, ShotPlaces
<1>5. x.pc = p /\ x.answer = shot.answer /\ x.got = shot.got /\ x.meta = shot.meta /\ x.rgba = shot.rgba
  BY <1>2, <1>3 DEF ShotCalls
<1>6. pipe' \in Pipes /\ pipe'.sent = pipe.sent /\ pipe'.meta = pipe.meta
  BY <1>2 DEF Pipes, Writers
<1>7. ShotRule(x, pipe')
  BY <1>2, <1>5, <1>6 DEF ShotRule
<1>8. shot' = x
  BY <1>3
<1>. QED
  BY <1>1, <1>4, <1>5, <1>6, <1>7, <1>8 DEF ShotInv

LEMMA OpeningKeeps ==
  ASSUME ShotInv, BeginShot \/ LookUp \/ OpenPipe
  PROVE  ShotInv'
<1>1. CASE BeginShot
  BY <1>1, GoesOnKeeps DEF BeginShot
<1>2. CASE LookUp
  <2>1. shot.pc = "look" /\ pipe' = pipe
    BY <1>2 DEF LookUp
  <2>2. CASE shot' = [shot EXCEPT !.pc = "connect"]
    BY <2>1, <2>2, GoesOnKeeps
  <2>3. CASE shot' \in {ShotAnswer(e) : e \in {"not_kwin", "no_snapshot", "dead", "no_geometry"}}
    <3>1. PICK e \in {"not_kwin", "no_snapshot", "dead", "no_geometry"} : shot' = ShotAnswer(e)
      BY <2>3
    <3>2. e \in ShotAnswers \ {"none", "panic", "ok", "stalled"}
      BY <3>1 DEF ShotAnswers
    <3>. QED
      BY <2>1, <3>1, <3>2, AnswerKeeps
  <2>. QED
    BY <1>2, <2>2, <2>3 DEF LookUp
<1>3. CASE OpenPipe
  <2>1. shot.pc = "connect"
    BY <1>3 DEF OpenPipe
  <2>2. CASE shot' = ShotAnswer("unavailable") /\ UNCHANGED pipe
    <3>1. "unavailable" \in ShotAnswers \ {"none", "panic", "ok", "stalled"}
      BY DEF ShotAnswers
    <3>. QED
      BY <2>1, <2>2, <3>1, AnswerKeeps
  <2>3. CASE shot' = [shot EXCEPT !.pc = "call"] /\ pipe' = [pipe EXCEPT !.writers = {"daemon"}]
    BY <2>1, <2>3, GoesOnKeeps
  <2>. QED
    BY <1>3, <2>2, <2>3 DEF OpenPipe
<1>. QED
  BY <1>1, <1>2, <1>3

LEMMA CallKWinKeeps ==
  ASSUME ShotInv, CallKWin
  PROVE  ShotInv'
<1>1. shot.pc = "call" /\ pipe.meta = NoMeta /\ shot' = shot
  BY DEF CallKWin
<1>2. PICK m \in Metas : pipe' = [pipe EXCEPT !.writers = @ \cup {"kwin"}, !.meta = m]
  BY DEF CallKWin
<1>3. pipe' \in Pipes /\ pipe'.meta = m /\ pipe'.sent = pipe.sent
  BY <1>2, ShotShape DEF Pipes, Writers, MaybeMeta
<1>4. pipe.sent = 0 /\ Size(m) \in Nat
  <2>1. pipe.sent <= 0
    BY <1>1, ShotShape, NothingSent DEF ShotRule
  <2>. QED
    BY <2>1, ShotShape, MetaFields
<1>5. ShotRule(shot, pipe)
  BY ShotShape
<1>6. ShotRule(shot, pipe')
  BY <1>1, <1>3, <1>4, <1>5 DEF ShotRule
<1>. QED
  BY <1>1, <1>3, <1>6, ShotShape DEF ShotInv

LEMMA CallAnsweredKeeps ==
  ASSUME ShotInv, CallAnswered
  PROVE  ShotInv'
<1>0. shot.pc = "call" /\ pipe.meta # NoMeta /\ pipe' = [pipe EXCEPT !.writers = @ \ {"daemon"}]
  BY DEF CallAnswered
<1>1. CASE shot' = [shot EXCEPT !.pc = "read", !.meta = pipe.meta]
  <2>1. PICK R : R = {shot.rgba}
    OBVIOUS
  <2>2. shot \in ShotCalls(R) /\ ShotRule(shot, pipe) /\ pipe \in Pipes /\ pipe.meta \in Metas
    BY <1>0, <2>1, ShotShape DEF MaybeMeta
  <2>3. PICK x : x = [shot EXCEPT !.pc = "read", !.meta = pipe.meta]
    OBVIOUS
  <2>4. x \in ShotCalls(R)
    BY <2>2, <2>3 DEF ShotCalls, ShotPlaces, MaybeMeta
  <2>5. x.pc = "read" /\ x.answer = shot.answer /\ x.got = shot.got /\ x.meta = pipe.meta /\ x.rgba = shot.rgba
    BY <2>2, <2>3 DEF ShotCalls
  <2>6. pipe' \in Pipes /\ pipe'.sent = pipe.sent /\ pipe'.meta = pipe.meta /\ pipe'.writers \subseteq {"kwin"}
    BY <1>0, <2>2 DEF Pipes, Writers
  <2>7. ShotRule(x, pipe')
    BY <1>0, <2>2, <2>5, <2>6 DEF ShotRule
  <2>. QED
    BY <1>1, <2>1, <2>3, <2>4, <2>5, <2>6, <2>7 DEF ShotInv
<1>2. CASE shot' \in {ShotAnswer("permission"), ShotAnswer("call_failed")}
  <2>1. PICK e \in {"permission", "call_failed"} : shot' = ShotAnswer(e)
    BY <1>2
  <2>2. e \in ShotAnswers \ {"none", "panic", "ok", "stalled"}
    BY <2>1 DEF ShotAnswers
  <2>. QED
    BY <1>0, <2>1, <2>2, AnswerKeeps
<1>. QED
  BY <1>1, <1>2 DEF CallAnswered

LEMMA KWinWritesKeeps ==
  ASSUME ShotInv, KWinWrites
  PROVE  ShotInv'
<1>1. shot' = shot /\ ShotRule(shot, pipe)
  BY ShotShape DEF KWinWrites
<1>2. CASE \E n \in {k \in {1, Size(pipe.meta) - 1, Size(pipe.meta)} : pipe.sent < k /\ k <= Size(pipe.meta)} : pipe' = [pipe EXCEPT !.sent = n]
  <2>1. PICK n \in {k \in {1, Size(pipe.meta) - 1, Size(pipe.meta)} : pipe.sent < k /\ k <= Size(pipe.meta)} : pipe' = [pipe EXCEPT !.sent = n]
    BY <1>2
  <2>2. n \in Nat /\ pipe.sent < n /\ n <= Size(pipe.meta)
    BY <2>1, ShotShape
  <2>3. pipe' \in Pipes /\ pipe'.sent = n /\ pipe'.meta = pipe.meta /\ pipe'.writers = pipe.writers
    BY <2>1, <2>2, ShotShape DEF Pipes
  <2>4. shot.got <= n
    BY <1>1, <2>2, ShotShape DEF ShotRule
  <2>5. ShotRule(shot, pipe')
    BY <1>1, <2>2, <2>3, <2>4 DEF ShotRule
  <2>. QED
    BY <1>1, <2>3, <2>5, ShotShape DEF ShotInv
<1>3. CASE pipe' = [pipe EXCEPT !.writers = @ \ {"kwin"}]
  <2>1. pipe' \in Pipes /\ pipe'.sent = pipe.sent /\ pipe'.meta = pipe.meta /\ pipe'.writers \subseteq pipe.writers
    BY <1>3, ShotShape DEF Pipes
  <2>2. ShotRule(shot, pipe')
    BY <1>1, <2>1 DEF ShotRule
  <2>. QED
    BY <1>1, <2>1, <2>2, ShotShape DEF ShotInv
<1>. QED
  BY <1>2, <1>3 DEF KWinWrites

LEMMA ReadSomeKeeps ==
  ASSUME ShotInv, ReadSome
  PROVE  ShotInv'
<1>0. shot.pc = "read" /\ shot' = [shot EXCEPT !.got = pipe.sent] /\ pipe' = pipe
  BY DEF ReadSome
<1>1. PICK R : R = {shot.rgba}
  OBVIOUS
<1>2. shot \in ShotCalls(R) /\ ShotRule(shot, pipe) /\ pipe \in Pipes /\ pipe.sent \in Nat
  BY <1>1, ShotShape
<1>3. PICK x : x = [shot EXCEPT !.got = pipe.sent]
  OBVIOUS
<1>4. x \in ShotCalls(R)
  BY <1>2, <1>3 DEF ShotCalls
<1>5. x.pc = "read" /\ x.answer = shot.answer /\ x.got = pipe.sent /\ x.meta = shot.meta /\ x.rgba = shot.rgba
  BY <1>0, <1>2, <1>3 DEF ShotCalls
<1>6. ShotRule(x, pipe)
  BY <1>0, <1>2, <1>5 DEF ShotRule
<1>. QED
  BY <1>0, <1>1, <1>2, <1>3, <1>4, <1>5, <1>6 DEF ShotInv

LEMMA ReadStallsKeeps ==
  ASSUME ShotInv, ReadStalls
  PROVE  ShotInv'
<1>0. shot.pc = "read" /\ shot' = [ShotAnswer("stalled") EXCEPT !.writing = pipe.writers] /\ pipe' = pipe /\ pipe.writers # {}
  BY DEF ReadStalls
<1>1. PICK R : R = {shot.rgba}
  OBVIOUS
<1>2. shot \in ShotCalls(R) /\ ShotRule(shot, pipe) /\ pipe \in Pipes /\ pipe.writers \subseteq Writers
  BY <1>1, ShotShape
<1>3. PICK x : x = [shot EXCEPT !.pc = "over", !.answer = "stalled", !.writing = pipe.writers]
  OBVIOUS
<1>4. x \in ShotCalls(R)
  BY <1>2, <1>3 DEF ShotCalls, ShotPlaces, ShotAnswers
<1>5. x.pc = "over" /\ x.answer = "stalled" /\ x.got = shot.got /\ x.meta = shot.meta /\ x.rgba = shot.rgba /\ x.writing = pipe.writers
  BY <1>0, <1>2, <1>3 DEF ShotCalls
<1>6. pipe.writers = {"kwin"}
  BY <1>0, <1>2 DEF ShotRule
<1>7. ShotRule(x, pipe)
  BY <1>0, <1>2, <1>5, <1>6 DEF ShotRule
<1>8. shot' = x
  BY <1>0, <1>2, <1>3 DEF ShotAnswer, ShotCalls
<1>. QED
  BY <1>0, <1>1, <1>2, <1>4, <1>5, <1>7, <1>8 DEF ShotInv

LEMMA EncodeKeeps ==
  ASSUME ShotInv, Encode
  PROVE  ShotInv'
<1>. DEFINE out == KwinRawToRgba(Raw(shot.meta, shot.got), shot.meta)
<1>0. shot.pc = "read" /\ shot.got = pipe.sent /\ pipe' = pipe
  BY DEF Encode
<1>1. /\ shot.meta \in Metas /\ shot.got \in Nat /\ shot.got <= Size(shot.meta)
  BY <1>0, ShotShape DEF ShotRule
<1>2. (out = Refused \/ (out.ok /\ IsPicture(out.rgba, shot.meta))) /\ out # Crashed
  BY <1>1, WholePicture
<1>3. shot' = IF shot.meta.type # "raw" THEN ShotAnswer("unsupported")
              ELSE IF out.ok THEN [ShotAnswer("ok") EXCEPT !.rgba = out.rgba]
              ELSE IF out = Crashed THEN ShotAnswer("panic") ELSE ShotAnswer("bad_picture")
  BY DEF Encode
<1>. HIDE DEF out
<1>4. CASE shot' = ShotAnswer("unsupported") \/ shot' = ShotAnswer("bad_picture")
  <2>1. "unsupported" \in ShotAnswers \ {"none", "panic", "ok", "stalled"} /\ "bad_picture" \in ShotAnswers \ {"none", "panic", "ok", "stalled"}
    BY DEF ShotAnswers
  <2>. QED
    BY <1>0, <1>4, <2>1, AnswerKeeps
<1>5. CASE shot' = [ShotAnswer("ok") EXCEPT !.rgba = out.rgba] /\ out.ok
  <2>1. PICK R : R = {shot.rgba}
    OBVIOUS
  <2>2. shot \in ShotCalls(R) /\ ShotRule(shot, pipe) /\ pipe \in Pipes
    BY <2>1, ShotShape
  <2>3. PICK g : g = out.rgba
    OBVIOUS
  <2>4. PICK x : x = [shot EXCEPT !.pc = "over", !.answer = "ok", !.rgba = g]
    OBVIOUS
  <2>5. x \in ShotCalls({g})
    BY <2>2, <2>4 DEF ShotCalls, ShotPlaces, ShotAnswers
  <2>6. x.pc = "over" /\ x.answer = "ok" /\ x.got = shot.got /\ x.meta = shot.meta /\ x.rgba = g
    BY <2>2, <2>4 DEF ShotCalls
  <2>7. IsPicture(g, shot.meta)
    BY <1>2, <1>5, <2>3 DEF Refused
  <2>8. ShotRule(x, pipe)
    BY <1>0, <2>2, <2>6, <2>7 DEF ShotRule
  <2>9. shot' = x
    BY <1>5, <2>2, <2>3, <2>4 DEF ShotAnswer, ShotCalls
  <2>. QED
    BY <1>0, <2>2, <2>5, <2>6, <2>8, <2>9 DEF ShotInv
<1>. QED
  BY <1>2, <1>3, <1>4, <1>5

LEMMA ShotKeeps ==
  ASSUME ShotInv, ShotNext
  PROVE  ShotInv'
BY OpeningKeeps, CallKWinKeeps, CallAnsweredKeeps, KWinWritesKeeps, ReadSomeKeeps, ReadStallsKeeps, EncodeKeeps DEF ShotNext

LEMMA ShotRests ==
  ASSUME ShotInv, UNCHANGED shotVars
  PROVE  ShotInv'
<1>1. shot' = shot /\ pipe' = pipe
  BY DEF shotVars
<1>. QED
  BY <1>1 DEF ShotInv

LEMMA ShotPromise ==
  ASSUME ShotInv
  PROVE  ShotTypeOK /\ PictureIsTheImage /\ NeverPastTheEnd /\ StallIsKWins
<1>1. ShotRule(shot, pipe)
  BY ShotShape
<1>2. ShotTypeOK
  BY <1>1, ShotShape DEF ShotTypeOK, ShotRule, ShotPlaces, Writers
<1>3. PictureIsTheImage
  BY <1>1 DEF ShotRule, IsPicture, Shows, PictureIsTheImage
<1>4. NeverPastTheEnd /\ StallIsKWins
  BY <1>1 DEF ShotRule, NeverPastTheEnd, StallIsKWins
<1>. QED
  BY <1>2, <1>3, <1>4

-----------------------------------------------------------------------------
(* The KWin adapter together.                                              *)

KWinSide == KWinInv /\ FreshInv /\ PortalInv /\ KWinLaunchInv /\ ShotInv

LEMMA KWinSideBegins ==
  ASSUME AdaptersInit
  PROVE  KWinSide
BY KWinBegins, FreshBegins, PortalBegins, KWinLaunchBegins, ShotBegins DEF AdaptersInit, KWinSide

\* A step of the adapters is a step of each of them, or leaves it alone.
LEMMA EachPartSteps ==
  ASSUME [AdaptersNext]_<<part, adapterVars>>
  PROVE  /\ KWinNext \/ UNCHANGED kwinVars
         /\ PortalNext \/ UNCHANGED portalVars
         /\ KWinLaunchNext \/ UNCHANGED kwinLaunchVars
         /\ ShotNext \/ UNCHANGED shotVars
         /\ WindowsCallsNext \/ UNCHANGED wcVars
BY DEF AdaptersNext, InputPart, WindowsLaunchPart, WindowsPart, BridgePart, PortalPart,
       KWinLaunchPart, ShotPart, MacPart, adapterVars

LEMMA KWinSideKeeps ==
  ASSUME KWinSide, [AdaptersNext]_<<part, adapterVars>>
  PROVE  KWinSide'
<1>1. KWinInv' /\ FreshInv'
  BY EachPartSteps, KWinKeeps, KWinRests, FreshKeeps, FreshRests DEF KWinSide
<1>2. PortalInv'
  BY EachPartSteps, PortalKeeps, PortalRests DEF KWinSide
<1>3. KWinLaunchInv'
  BY EachPartSteps, KWinLaunchKeeps, KWinLaunchRests DEF KWinSide
<1>4. ShotInv'
  BY EachPartSteps, ShotKeeps, ShotRests DEF KWinSide
<1>. QED
  BY <1>1, <1>2, <1>3, <1>4 DEF KWinSide

\* Whatever scripts, users, processes and the compositor do meanwhile: a command that is answered with success ran, once,
\* and no call leaves its command or its completion behind (queue_command, next_command_json, complete_command_json); input
\* calls ask for consent one at a time and leave no session that nobody closes (ensure_remote_desktop_session and the drop of
\* RemoteDesktopSession); a window that a launch returns as new is new, and as strong is of the launch (correlate); a
\* screenshot holds every pixel of the picture in its place, never reads past the bytes that came and stalls on KWin only
\* (screenshot.rs).
THEOREM KWinTellsTheTruth ==
  AdaptersInit /\ [][AdaptersNext]_<<part, adapterVars>> => []KWinAnswersTrue
<1>1. AdaptersInit => KWinSide
  BY KWinSideBegins
<1>2. KWinSide /\ [AdaptersNext]_<<part, adapterVars>> => KWinSide'
  BY KWinSideKeeps
<1>3. KWinSide => KWinAnswersTrue
  BY KWinPromise, PortalPromise, KWinLaunchPromise, ShotPromise DEF KWinSide, KWinAnswersTrue
<1>. QED
  BY <1>1, <1>2, <1>3, PTL

\* A picture is handed out for the window that was drawn only (the Windows adapter's screenshot), a command is handed to a
\* script only while its call waits or was dropped (next_command_json), a refresh returns with a snapshot as new as the
\* question unless messages overtook each other (refresh_snapshot), and a button or an axis event comes where it was asked
\* for unless something moved the pointer since the snapshot (move_pointer_to_global).
THEOREM NothingStale ==
  AdaptersInit /\ [][AdaptersNext]_<<part, adapterVars>> => NothingStaleIsUsed
<1>. DEFINE Inv == KWinSide /\ CallsInv /\ TookInv
            Shot == \A c \in Callers : call[c].at = "printed" /\ call'[c].at = "ok" => call[c].took = call[c].s.id
            Hand == \A s \in Scripts : script'[s].at = "run" /\ script[s].at # "run" => kcall[script'[s].id].at \in {"wait", "dropped"}
            Fresh == \A c \in KCalls : kcall[c].kind = "snapshot" /\ kcall[c].at = "wait" /\ kcall'[c].at = "ok"
                        => overtaken \/ bridge.latest >= kcall[c].asked
            Lands == \A c \in PCalls :
                       Len(icall[c].todo) > 0 /\ Head(icall[c].todo) \in {"button", "axis"} /\ icall[c].todo # icall'[c].todo
                         /\ icall'[c].at # "failed" /\ ~icall[c].off
                       => cursor = Spot[c]
<1>1. AdaptersInit => Inv
  BY KWinSideBegins, CallsInitially, TookBegins DEF AdaptersInit
<1>2. Inv /\ [AdaptersNext]_<<part, adapterVars>> => Inv'
  <2>. SUFFICES ASSUME Inv, [AdaptersNext]_<<part, adapterVars>> PROVE Inv'
    OBVIOUS
  <2>1. KWinSide'
    BY KWinSideKeeps
  <2>2. CallsInv'
    BY EachPartSteps, CallsStep
  <2>3. TookInv'
    BY EachPartSteps, TookKeeps, TookRests
  <2>. QED
    BY <2>1, <2>2, <2>3
<1>3. Inv /\ [AdaptersNext]_<<part, adapterVars>> => [Shot]_wcVars
  BY EachPartSteps, PictureOfTheSurface
<1>4. Inv /\ [AdaptersNext]_<<part, adapterVars>> => [Hand]_kwinVars /\ [Fresh]_kwinVars
  BY EachPartSteps, CommandsAreTimely DEF KWinSide
<1>5. Inv /\ [AdaptersNext]_<<part, adapterVars>> => [Lands]_portalVars
  BY OnItsSpot DEF KWinSide
<1>. HIDE DEF Inv, Shot, Hand, Fresh, Lands
<1>6. AdaptersInit /\ [][AdaptersNext]_<<part, adapterVars>> =>
        [][Shot]_wcVars /\ [][Hand]_kwinVars /\ [][Fresh]_kwinVars /\ [][Lands]_portalVars
  BY <1>1, <1>2, <1>3, <1>4, <1>5, PTL
<1>. QED
  BY <1>6 DEF NothingStaleIsUsed, ShotIsOfTheSurface, NoLateHandout, RefreshIsFresh, PointerLands, Shot, Hand, Fresh, Lands
=============================================================================
