------------------------ MODULE ModbusChannel_proof ------------------------
(***************************************************************************)
(* Proofs about ModbusChannel, with or without link faults: the connection *)
(* has one user at a time, no lock conflict stops the sync timer, and the  *)
(* only one that ends the program is a keep-alive inside the box of a      *)
(* failed one.  When the handlers have returned, or wait in a box, what    *)
(* they had taken is given back.                                           *)
(***************************************************************************)
EXTENDS ModbusChannel, TLAPS

\* Where a tick or a button can be: every request there is made in a try block.
OnServicePath == TickOps \cup GoOps \cup GrabOps \cup FreeBoxes \cup Computing \cup {"idle"}

Places(h) ==
    IF h = "open" THEN {"idle", "connect", "connectBox", "openBox"} \cup OpenOps \cup GrabOps
    ELSE IF h = "keep" THEN {"idle", "keepBox"} \cup KeepOps
    ELSE IF h = "again" THEN {"idle", "r0"}
    ELSE OnServicePath

\* The inductive invariant.  It says where each handler can be, that whatever is
\* not on top of the stack sits in a box, and that the two boxes opened under the
\* mutex exclude each other: one needs the link down and the other needs it up.

HandlerPlaces == \A h \in Handlers : pc[h] \in Places(h)

SuspendedInBox == \A h \in Handlers : pc[h] # "idle" /\ h # top => pc[h] \in Boxes

\* Until OpenModBus has made its requests no other handler has run.
OpenAlone ==
    pc["open"] \in {"connect"} \cup OpenOps =>
        top = "open" /\ \A h \in Handlers \ {"open"} : pc[h] = "idle"

LinkedPlaces ==
    /\ pc["open"] \in {"connect", "connectBox"} => ~connected
    /\ pc["keep"] # "idle" => connected

\* The second keep-alive never gets past the mutex that the first one holds.
AgainOnTop == pc["again"] = "r0" => top = "again" /\ pc["keep"] = "keepBox"

\* The sync timer is never started without a link.
SyncNeedsLink == syncOn => connected

StackInv ==
    /\ HandlerPlaces
    /\ SuspendedInBox
    /\ OpenAlone
    /\ LinkedPlaces
    /\ AgainOnTop

ChannelInv ==
    /\ ChannelTypeOK
    /\ OneUser
    /\ SyncNeedsLink
    /\ OnlyKeepAliveEscapes
    /\ StackInv

-----------------------------------------------------------------------------
(* Where a handler goes from each of its places. *)

LEMMA AfterOpen ==
    \A p \in OpenOps, ok \in BOOLEAN :
        AfterRequest(p, ok) \subseteq {"openBox", "w139grab"} \cup OpenOps
BY DEF AfterRequest, OpenOps, OnSuccess, OnFailure

LEMMA AfterKeep ==
    \A p \in KeepOps, ok \in BOOLEAN :
        AfterRequest(p, ok) \subseteq {"idle", "keepBox"} \cup KeepOps
BY DEF AfterRequest, KeepOps, OnSuccess, OnFailure

LEMMA AfterGrab ==
    \A p \in GrabOps, ok \in BOOLEAN : AfterRequest(p, ok) = {"idle"}
BY DEF AfterRequest, GrabOps, OnSuccess, OnFailure

LEMMA AfterService ==
    \A p \in Caught, ok \in BOOLEAN : AfterRequest(p, ok) \subseteq OnServicePath
BY DEF AfterRequest, Caught, TickOps, GoOps, GrabOps, FreeBoxes, Computing, OnServicePath,
       OnSuccess, OnFailure

LEMMA AfterComputing ==
    \A p \in Computing \cup FreeBoxes : AfterOther[p] \subseteq OnServicePath \cup {"goEnd"}
BY DEF AfterOther, TickOps, GoOps, GrabOps, FreeBoxes, Computing, OnServicePath

LEMMA AfterOpenBox == AfterOther["openBox"] = {"w139grab"}
BY DEF AfterOther

LEMMA AfterLockedBox == \A p \in LockedBoxes : AfterOther[p] = {"idle"}
BY DEF AfterOther, LockedBoxes

-----------------------------------------------------------------------------
(* What a step of the running handler and the start of a handler do to the    *)
(* stack.                                                                     *)

\* The handler on top goes to q, or returns.
Advance(h, q) ==
    /\ pc' = [pc EXCEPT ![h] = q]
    /\ top' \in Handlers \cup {None}
    /\ below' \in [Handlers -> Handlers \cup {None}]
    /\ syncBusy' \in BOOLEAN
    /\ q # "idle" => top' = top

Resolved(h, p) ==
    IF p # "goEnd" THEN p ELSE IF h = "tick" THEN "w139end" ELSE "idle"

LEMMA ProceedAdvances ==
    ASSUME ChannelTypeOK, NEW h \in Handlers, NEW p, Proceed(h, p)
    PROVE  Advance(h, Resolved(h, p))
<1> DEFINE q == Resolved(h, p)
<1>1. CASE q = "idle"
  <2>1. Return(h)
    BY <1>1 DEF Proceed, Resolved
  <2> QED BY <1>1, <2>1 DEF Return, Goto, Advance, ChannelTypeOK
<1>2. CASE q # "idle"
  <2>1. Goto(h, q) /\ UNCHANGED <<top, below, syncBusy>>
    BY <1>2 DEF Proceed, Resolved
  <2> QED BY <1>2, <2>1 DEF Goto, Advance, ChannelTypeOK
<1> QED BY <1>1, <1>2

\* A handler other than the second keep-alive that stays on its own path, and
\* does not go back to connecting, preserves the stack.
LEMMA AdvanceStack ==
    ASSUME ChannelTypeOK, StackInv, NEW h \in Handlers, top = h, pc[h] # "idle",
           NEW q \in Places(h), Advance(h, q),
           h # "again",
           h = "open" => /\ q # "connect"
                         /\ q = "connectBox" => ~connected'
                         /\ q \in OpenOps => pc["open"] \in {"connect"} \cup OpenOps,
           connected => connected',
           h = "open" \/ connected' = connected
    PROVE  StackInv'
<1> USE DEF StackInv, ChannelTypeOK
<1>1. \A g \in Handlers : pc'[g] = IF g = h THEN q ELSE pc[g]
  BY DEF Advance
<1>2. HandlerPlaces'
  BY <1>1 DEF HandlerPlaces, Places
<1>3. SuspendedInBox'
  BY <1>1 DEF SuspendedInBox, Advance
<1>4. OpenAlone'
  <2> SUFFICES ASSUME pc'["open"] \in {"connect"} \cup OpenOps
               PROVE  top' = "open" /\ \A g \in Handlers \ {"open"} : pc'[g] = "idle"
    BY DEF OpenAlone
  <2>1. "open" \in Handlers
    BY DEF Handlers
  <2>2. pc["open"] \in {"connect"} \cup OpenOps
    BY <1>1, <2>1
  <2>3. h = "open" /\ \A g \in Handlers \ {"open"} : pc[g] = "idle"
    BY <2>2 DEF OpenAlone
  <2>4. q # "idle"
    BY <1>1, <2>1, <2>3 DEF OpenOps
  <2> QED BY <1>1, <2>3, <2>4 DEF Advance
<1>5. LinkedPlaces'
  <2>1. "open" \in Handlers /\ "keep" \in Handlers
    BY DEF Handlers
  <2>2. pc'["open"] \in {"connect", "connectBox"} => ~connected'
    BY <1>1, <2>1 DEF LinkedPlaces
  <2>3. pc'["keep"] # "idle" => connected'
    BY <1>1, <2>1 DEF LinkedPlaces
  <2> QED BY <2>2, <2>3 DEF LinkedPlaces
<1>6. AgainOnTop'
  <2>1. "again" \in Handlers
    BY DEF Handlers
  <2> QED BY <1>1, <2>1 DEF AgainOnTop
<1> QED BY <1>2, <1>3, <1>4, <1>5, <1>6

\* The conflict that LockedBelow stands for has one owner.
LEMMA OneLockedBox ==
    ASSUME ChannelTypeOK, StackInv, NEW g \in Handlers, pc[g] \in LockedBoxes
    PROVE  \/ g = "open" /\ pc[g] = "connectBox" /\ ~connected
           \/ g = "keep" /\ pc[g] = "keepBox" /\ connected
<1>1. pc[g] \in Places(g)
  BY DEF StackInv, HandlerPlaces
<1> QED BY <1>1 DEF Places, LockedBoxes, OpenOps, KeepOps, GrabOps, OnServicePath, TickOps,
               GoOps, FreeBoxes, Computing, StackInv, LinkedPlaces, Handlers

\* A handler starts while messages are pumped.
LEMMA PushStack ==
    ASSUME ChannelTypeOK, StackInv, Pumping, NEW h \in Handlers \ {"open"},
           pc[h] = "idle" \/ h \in {"tick", "button", "again"},
           NEW q \in Places(h), q \notin LockedBoxes, q # "idle", Push(h, q),
           h = "again" => pc["keep"] # "idle",
           h = "keep" => connected, UNCHANGED connected
    PROVE  /\ StackInv'
           /\ top' \in Handlers \cup {None}
           /\ below' \in [Handlers -> Handlers \cup {None}]
           /\ LockedBelow' = LockedBelow
<1> USE DEF StackInv, ChannelTypeOK
<1>1. \A g \in Handlers : pc'[g] = IF g = h THEN q ELSE pc[g]
  BY DEF Push, Goto
<1>2. \A g \in Handlers : pc[g] # "idle" => pc[g] \in Boxes
  BY DEF SuspendedInBox, Pumping, None, Handlers
<1>3. "open" \in Handlers /\ "keep" \in Handlers /\ "again" \in Handlers /\ None \notin Handlers
  BY DEF Handlers, None
<1>4. pc["open"] \notin {"connect"} \cup OpenOps
  BY <1>2, <1>3 DEF Boxes, LockedBoxes, FreeBoxes, OpenOps
<1>5. pc["again"] = "idle"
  BY <1>2, <1>3 DEF HandlerPlaces, Places, Boxes, LockedBoxes, FreeBoxes
<1>6. pc["keep"] \in {"idle", "keepBox"}
  BY <1>2, <1>3 DEF HandlerPlaces, Places, Boxes, LockedBoxes, FreeBoxes, KeepOps
<1>7. HandlerPlaces' /\ SuspendedInBox'
  BY <1>1, <1>2 DEF HandlerPlaces, SuspendedInBox, Push, Places
<1>8. OpenAlone'
  BY <1>1, <1>3, <1>4 DEF OpenAlone
<1>9. LinkedPlaces'
  BY <1>1, <1>3 DEF LinkedPlaces
<1>10. AgainOnTop'
  BY <1>1, <1>3, <1>5, <1>6 DEF AgainOnTop, Push
<1>11. LockedBelow' = LockedBelow
  <2>1. pc[h] \notin LockedBoxes
    BY <1>5, OneLockedBox DEF LockedBoxes
  <2> QED BY <1>1, <2>1 DEF LockedBelow
<1> QED BY <1>7, <1>8, <1>9, <1>10, <1>11 DEF Push

-----------------------------------------------------------------------------

LEMMA ChannelInitInv == ChannelInit => ChannelInv
BY DEF ChannelInit, ChannelInv, ChannelTypeOK, OneUser, SyncNeedsLink, OnlyKeepAliveEscapes,
       StackInv, HandlerPlaces, Places, OnServicePath, SuspendedInBox, OpenAlone, LinkedPlaces,
       AgainOnTop, LockedBelow, LockedBoxes, Handlers, None, Points

\* Messages start handlers and leave the connection alone.
LEMMA MessagesPreserve ==
    ChannelInv /\ ~escaped /\ (TickFires \/ KeepFires \/ ButtonPressed) => ChannelInv'
<1> SUFFICES ASSUME ChannelInv, ~escaped, TickFires \/ KeepFires \/ ButtonPressed
             PROVE  ChannelInv'
  OBVIOUS
<1>1. PICK h \in Handlers \ {"open"} : \E q \in Places(h) \ (LockedBoxes \cup {"idle"}) :
          /\ Pumping
          /\ pc[h] = "idle" \/ h \in {"tick", "button", "again"}
          /\ Push(h, q)
          /\ h = "again" => pc["keep"] # "idle"
          /\ h = "keep" => connected
          /\ q \in Ops \cup FreeBoxes
          /\ syncBusy' \in BOOLEAN
          /\ UNCHANGED <<connected, holder, syncOn, coord, escaped>>
  <2>1. CASE TickFires
    <3>1. "r139fn" \in Places("tick") \ (LockedBoxes \cup {"idle"}) /\ "r139fn" \in Ops
      BY DEF Places, OnServicePath, TickOps, LockedBoxes, Ops
    <3> QED BY <2>1, <3>1 DEF TickFires, Handlers
  <2>2. CASE KeepFires
    <3>1. \A h \in KeepAlives : "r0" \in Places(h) \ (LockedBoxes \cup {"idle"}) /\ "r0" \in Ops
      BY DEF Places, KeepOps, LockedBoxes, Ops, KeepAlives
    <3> QED BY <2>2, <3>1 DEF KeepFires, Handlers, KeepAlives, ChannelInv, ChannelTypeOK
  <2>3. CASE ButtonPressed
    <3>1. \A q \in {"r186go", "goBox"} \cup GrabOps :
             q \in Places("button") \ (LockedBoxes \cup {"idle"}) /\ q \in Ops \cup FreeBoxes
      BY DEF Places, OnServicePath, GoOps, GrabOps, FreeBoxes, LockedBoxes, Ops
    <3> QED BY <2>3, <3>1 DEF ButtonPressed, Pumping, Handlers, ChannelInv, ChannelTypeOK
  <2> QED BY <2>1, <2>2, <2>3
<1>2. PICK q \in Places(h) \ (LockedBoxes \cup {"idle"}) :
          Push(h, q) /\ q \in Ops \cup FreeBoxes
  BY <1>1
<1>3. ChannelTypeOK /\ StackInv
  BY DEF ChannelInv
<1>4. /\ StackInv'
      /\ top' \in Handlers \cup {None}
      /\ below' \in [Handlers -> Handlers \cup {None}]
      /\ LockedBelow' = LockedBelow
  BY <1>1, <1>2, <1>3, PushStack
<1>5. pc' \in [Handlers -> Points]
  BY <1>2, <1>3 DEF Push, Goto, ChannelTypeOK, Points, Boxes
<1>6. ChannelTypeOK'
  BY <1>1, <1>3, <1>4, <1>5 DEF ChannelTypeOK
<1> QED BY <1>1, <1>4, <1>6 DEF ChannelInv, OneUser, SyncNeedsLink, OnlyKeepAliveEscapes

\* What a step of the running handler preserves once it is known where it goes:
\* the lemmas below supply the place and what becomes of the mutex.
LEMMA AdvancePreserves ==
    ASSUME ChannelInv, ~escaped, NEW h \in Handlers, top = h, pc[h] # "idle",
           NEW q \in Places(h), Advance(h, q),
           h # "again",
           h = "open" => /\ q # "connect"
                         /\ q = "connectBox" => ~connected'
                         /\ q \in OpenOps => pc["open"] \in {"connect"} \cup OpenOps,
           connected => connected',
           h = "open" \/ connected' = connected,
           holder' \in {"free", "ui", "coord"}, coord' \in {"off", "idle", "read"},
           OneUser', SyncNeedsLink', syncOn' \in BOOLEAN, connected' \in BOOLEAN, UNCHANGED escaped
    PROVE  ChannelInv'
<1>1. ChannelTypeOK /\ StackInv
  BY DEF ChannelInv
<1>2. StackInv'
  BY <1>1, AdvanceStack
<1>3. q \in Points
  BY DEF Places, Points, Ops, Boxes, LockedBoxes, FreeBoxes, KeepOps, OnServicePath
<1>4. ChannelTypeOK'
  BY <1>1, <1>3 DEF ChannelTypeOK, Advance
<1> QED BY <1>2, <1>4 DEF ChannelInv, SyncNeedsLink, OnlyKeepAliveEscapes

LEMMA ConnectPreserves == ChannelInv /\ ~escaped /\ Connect => ChannelInv'
<1> SUFFICES ASSUME ChannelInv, ~escaped, Connect PROVE ChannelInv'
  OBVIOUS
<1>1. ChannelTypeOK /\ OneUser /\ StackInv /\ "open" \in Handlers /\ SyncNeedsLink
  BY DEF ChannelInv, Handlers
<1>2. ~LockedBelow /\ coord # "read" /\ ~connected
  BY <1>1 DEF OneUser, Connect, StackInv, LinkedPlaces
<1>3. PICK q \in {"w145", "connectBox"} :
          /\ Goto("open", q)
          /\ holder' = IF q = "connectBox" THEN "ui" ELSE "free"
          /\ q = "w145" => connected' = TRUE /\ syncOn' = TRUE
          /\ q = "connectBox" => UNCHANGED <<connected, syncOn>>
  BY <1>1, <1>2 DEF Connect
<1>4. \A g \in Handlers : pc'[g] = IF g = "open" THEN q ELSE pc[g]
  BY <1>1, <1>3 DEF Goto, ChannelTypeOK
<1>5. OneUser'
  BY <1>1, <1>2, <1>3, <1>4 DEF OneUser, LockedBelow, LockedBoxes, Connect
<1>6. Advance("open", q) /\ q \in Places("open")
  BY <1>1, <1>3 DEF Advance, Goto, Connect, ChannelTypeOK, Places, OpenOps
<1>7. /\ SyncNeedsLink' /\ syncOn' \in BOOLEAN
      /\ connected' \in BOOLEAN
      /\ q = "connectBox" => ~connected'
  <2>1. CASE q = "w145"
    <3>1. connected' = TRUE /\ syncOn' = TRUE
      BY <1>3, <2>1
    <3> QED BY <2>1, <3>1 DEF SyncNeedsLink
  <2>2. CASE q = "connectBox"
    <3>1. connected' = connected /\ syncOn' = syncOn
      BY <1>3, <2>2
    <3> QED BY <1>1, <1>2, <3>1 DEF ChannelTypeOK, SyncNeedsLink
  <2> QED BY <2>1, <2>2
<1>8. /\ top = "open" /\ pc["open"] = "connect"
      /\ holder' \in {"free", "ui", "coord"}
      /\ coord' \in {"off", "idle", "read"}
      /\ UNCHANGED escaped
  BY <1>1, <1>3 DEF Connect, ChannelTypeOK
<1> QED BY <1>1, <1>2, <1>5, <1>6, <1>7, <1>8, AdvancePreserves


\* Requests go out only when no box below holds the mutex, so the second
\* keep-alive, which runs in such a box, makes none.
LEMMA TransactPreserves ==
    ASSUME ChannelInv, ~escaped, NEW h \in Handlers, Transact(h)
    PROVE  ChannelInv'
<1>1. ChannelTypeOK /\ OneUser /\ StackInv /\ SyncNeedsLink /\ top = h /\ pc[h] \in Ops
  BY DEF ChannelInv, Transact
<1>2. holder = "ui" /\ ~LockedBelow /\ connected /\ coord # "read"
  BY <1>1 DEF Transact, OneUser
<1>0. PICK ok \in BOOLEAN : \E p \in AfterRequest(pc[h], ok) :
          /\ Proceed(h, p)
          /\ holder' = IF p \in LockedBoxes THEN "ui" ELSE "free"
  BY DEF Transact
<1>3. PICK p \in AfterRequest(pc[h], ok) :
          /\ Proceed(h, p)
          /\ holder' = IF p \in LockedBoxes THEN "ui" ELSE "free"
  BY <1>0
<1>4. h # "again"
  <2> SUFFICES ASSUME h = "again" PROVE FALSE
    OBVIOUS
  <2>1. pc["again"] = "r0"
    BY <1>1 DEF StackInv, HandlerPlaces, Places, Ops, OpenOps, KeepOps, TickOps, GoOps, GrabOps
  <2>2. pc["keep"] = "keepBox" /\ "keep" \in Handlers
    BY <1>1, <2>1 DEF StackInv, AgainOnTop, Handlers
  <2> QED BY <1>2, <2>2 DEF LockedBelow, LockedBoxes
<1>5. /\ p \in Places(h)
      /\ h = "open" => p # "connectBox" /\ p # "connect"
                       /\ (p \in OpenOps => pc["open"] \in OpenOps)
  <2>1. CASE h = "open"
    <3>1. pc["open"] \in OpenOps \cup GrabOps
      BY <1>1, <2>1 DEF StackInv, HandlerPlaces, Places, Ops, OpenOps, KeepOps, TickOps, GoOps, GrabOps
    <3>2. CASE pc["open"] \in OpenOps
      BY <1>3, <2>1, <3>2, AfterOpen DEF Places, GrabOps, OpenOps
    <3>3. CASE pc["open"] \in GrabOps
      BY <1>3, <2>1, <3>3, AfterGrab DEF Places, OpenOps
    <3> QED BY <3>1, <3>2, <3>3
  <2>2. CASE h = "keep"
    <3>1. pc["keep"] \in KeepOps
      BY <1>1, <2>2 DEF StackInv, HandlerPlaces, Places, Ops, OpenOps, KeepOps, TickOps, GoOps, GrabOps
    <3> QED BY <1>3, <2>2, <3>1, AfterKeep DEF Places
  <2>3. CASE h \in {"tick", "button"}
    <3>1. pc[h] \in Caught
      BY <1>1, <2>3 DEF StackInv, HandlerPlaces, Places, Ops, OpenOps, KeepOps, TickOps, GoOps,
             GrabOps, OnServicePath, FreeBoxes, Computing, Caught
    <3> QED BY <1>3, <2>3, <3>1, AfterService DEF Places
  <2> QED BY <1>4, <2>1, <2>2, <2>3 DEF Handlers
<1>6. Resolved(h, p) = p
  BY <1>5 DEF Resolved, Places, OnServicePath, OpenOps, KeepOps, TickOps, GoOps, GrabOps,
         FreeBoxes, Computing
<1>7. Advance(h, p)
  BY <1>1, <1>3, <1>6, ProceedAdvances
<1>8. \A g \in Handlers : pc'[g] = IF g = h THEN p ELSE pc[g]
  BY <1>1, <1>7 DEF Advance, ChannelTypeOK
<1>9. LockedBelow' <=> p \in LockedBoxes
  BY <1>2, <1>8 DEF LockedBelow
<1>10. coord' \in {"off", "idle"} /\ connected' = connected
  BY <1>1, <1>2 DEF Transact, ChannelTypeOK
<1>11. OneUser'
  BY <1>2, <1>3, <1>9, <1>10 DEF OneUser
<1>12. pc[h] # "idle"
  BY <1>1 DEF Ops, OpenOps, KeepOps, TickOps, GoOps, GrabOps
<1> QED BY <1>1, <1>3, <1>4, <1>5, <1>7, <1>10, <1>11, <1>12, AdvancePreserves
        DEF Transact, SyncNeedsLink, ChannelTypeOK

\* A step off the mutex: it neither takes nor gives back a lock.
LEMMA FreeStepPreserves ==
    ASSUME ChannelInv, ~escaped, NEW h \in Handlers \ {"again"}, top = h,
           pc[h] \notin LockedBoxes \cup {"idle"},
           NEW p \in (OnServicePath \cup {"goEnd"}), Proceed(h, p),
           Resolved(h, p) \in Places(h),
           h = "open" => Resolved(h, p) \in GrabOps \cup {"idle"},
           UNCHANGED <<connected, holder, syncOn, coord, escaped>>
    PROVE  ChannelInv'
<1> DEFINE q == Resolved(h, p)
<1>1. ChannelTypeOK /\ OneUser /\ SyncNeedsLink /\ StackInv
  BY DEF ChannelInv
<1>2. Advance(h, q)
  BY <1>1, ProceedAdvances
<1>3. \A g \in Handlers : pc'[g] = IF g = h THEN q ELSE pc[g]
  BY <1>1, <1>2 DEF Advance, ChannelTypeOK
<1>4. q \notin LockedBoxes
  BY DEF Resolved, OnServicePath, TickOps, GoOps, GrabOps, FreeBoxes, Computing, LockedBoxes
<1>5. LockedBelow' = LockedBelow
  BY <1>3, <1>4 DEF LockedBelow
<1>6. OneUser'
  BY <1>1, <1>5 DEF OneUser
<1>7. h = "open" => q # "connect" /\ q # "connectBox" /\ q \notin OpenOps
  BY DEF GrabOps, OpenOps
<1>8. q \in Places(h)
  OBVIOUS
<1> HIDE DEF q
<1> QED BY <1>1, <1>2, <1>6, <1>7, <1>8, AdvancePreserves DEF SyncNeedsLink, ChannelTypeOK

LEMMA RefusePreserves ==
    ASSUME ChannelInv, ~escaped, NEW h \in Handlers, Refuse(h)
    PROVE  ChannelInv'
<1>1. top = h /\ pc[h] \in Caught /\ pc[h] \in Places(h)
  BY DEF ChannelInv, StackInv, HandlerPlaces, Refuse
<1>2. PICK p \in AfterRequest(pc[h], FALSE) : Proceed(h, p)
  BY DEF Refuse
<1>3. p \in OnServicePath
  BY <1>1, <1>2, AfterService
<1>4. h \in {"open", "tick", "button"}
  BY <1>1 DEF Handlers, Places, Caught, TickOps, GoOps, GrabOps, KeepOps
<1>5. Resolved(h, p) = p
  BY <1>3 DEF Resolved, OnServicePath, TickOps, GoOps, GrabOps, FreeBoxes, Computing
<1>6. p \in Places(h) /\ (h = "open" => p = "idle")
  <2>1. CASE h = "open"
    <3>1. pc[h] \in GrabOps
      BY <1>1, <2>1 DEF Places, Caught, TickOps, GoOps, GrabOps, OpenOps
    <3> QED BY <1>2, <2>1, <3>1, AfterGrab DEF Places
  <2>2. CASE h \in {"tick", "button"}
    BY <1>3, <2>2 DEF Places
  <2> QED BY <1>4, <2>1, <2>2
<1>7. pc[h] \notin LockedBoxes \cup {"idle"}
  BY <1>1 DEF Caught, TickOps, GoOps, GrabOps, LockedBoxes
<1> QED BY <1>1, <1>2, <1>3, <1>4, <1>5, <1>6, <1>7, FreeStepPreserves DEF Refuse

\* The requests that nothing catches: OpenModBus makes them alone, the keep-alive
\* makes them where only its own box could hold the mutex.
LEMMA ThrowPreserves ==
    ASSUME ChannelInv, ~escaped, NEW h \in Handlers, Throw(h)
    PROVE  ChannelInv'
<1>1. ChannelTypeOK /\ OneUser /\ SyncNeedsLink /\ StackInv
  BY DEF ChannelInv
<1>2. top = h /\ pc[h] \in OpenOps \cup KeepOps /\ pc[h] \in Places(h) /\ connected
  BY <1>1 DEF Throw, Ops, Caught, StackInv, HandlerPlaces
<1>3. PICK g \in Handlers : pc[g] \in LockedBoxes
  BY DEF Throw, LockedBelow
<1>4. g = "keep" /\ pc["keep"] = "keepBox"
  BY <1>1, <1>2, <1>3, OneLockedBox
<1>5. h # "keep"
  BY <1>2, <1>4 DEF OpenOps, KeepOps
<1>6. h # "open"
  BY <1>1, <1>2, <1>3, <1>4 DEF StackInv, OpenAlone, Places, OpenOps, KeepOps, GrabOps
<1>7. h = "again" /\ pc["again"] = "r0"
  BY <1>2, <1>5, <1>6 DEF Handlers, Places, OnServicePath, OpenOps, KeepOps, TickOps, GoOps,
         GrabOps, FreeBoxes, Computing
<1>8. escaped' = TRUE /\ UNCHANGED <<connected, holder, syncOn, syncBusy, top, below, pc, coord>>
  BY <1>7 DEF Throw, stackVars
<1> QED BY <1>1, <1>4, <1>7, <1>8
        DEF ChannelInv, ChannelTypeOK, OneUser, SyncNeedsLink, OnlyKeepAliveEscapes, LockedBelow,
            StackInv, HandlerPlaces, SuspendedInBox, OpenAlone, LinkedPlaces, AgainOnTop

LEMMA ComputePreserves ==
    ASSUME ChannelInv, ~escaped, NEW h \in Handlers, Compute(h)
    PROVE  ChannelInv'
<1>1. top = h /\ pc[h] \in Computing /\ pc[h] \in Places(h)
  BY DEF ChannelInv, StackInv, HandlerPlaces, Compute
<1>2. h \in {"tick", "button"}
  BY <1>1 DEF Handlers, Places, Computing, KeepOps, OpenOps, GrabOps
<1>3. pc[h] \notin LockedBoxes \cup {"idle"}
  BY <1>1 DEF Computing, LockedBoxes
<1>4. CASE UNCHANGED syncOn /\ \E p \in AfterOther[pc[h]] : Proceed(h, p)
  <2>1. PICK p \in AfterOther[pc[h]] : Proceed(h, p)
    BY <1>4
  <2>2. p \in OnServicePath \cup {"goEnd"}
    BY <1>1, <2>1, AfterComputing
  <2>3. Resolved(h, p) \in Places(h)
    BY <1>2, <2>2 DEF Resolved, Places, OnServicePath, TickOps
  <2> QED BY <1>1, <1>2, <1>3, <1>4, <2>1, <2>2, <2>3, FreeStepPreserves DEF Compute
<1>5. CASE h = "tick" /\ Return(h) /\ syncOn' = FALSE
  <2>1. ChannelTypeOK /\ OneUser
    BY DEF ChannelInv
  <2>2. Advance(h, "idle")
    BY <1>5, <2>1 DEF Return, Goto, Advance, ChannelTypeOK
  <2>3. \A g \in Handlers : pc'[g] = IF g = h THEN "idle" ELSE pc[g]
    BY <2>1, <2>2 DEF Advance, ChannelTypeOK
  <2>4. LockedBelow' = LockedBelow
    BY <1>3, <2>3 DEF LockedBelow, LockedBoxes
  <2>5. OneUser' /\ SyncNeedsLink'
    BY <1>5, <2>1, <2>4 DEF Compute, OneUser, SyncNeedsLink
  <2>6. "idle" \in Places(h)
    BY <1>2 DEF Places, OnServicePath
  <2>7. syncOn' \in BOOLEAN /\ UNCHANGED <<connected, holder, coord, escaped>>
    BY <1>5, Zenon DEF Compute
  <2> QED BY <1>1, <1>3, <1>5, <2>1, <2>2, <2>5, <2>6, <2>7, AdvancePreserves DEF ChannelTypeOK
<1> QED BY <1>4, <1>5 DEF Compute

\* Of the two boxes opened under the mutex only one can be up, so that closing it
\* leaves none behind.
LEMMA CloseBoxPreserves ==
    ASSUME ChannelInv, ~escaped, NEW h \in Handlers, CloseBox(h)
    PROVE  ChannelInv'
<1>1. ChannelTypeOK /\ OneUser /\ SyncNeedsLink /\ StackInv
  BY DEF ChannelInv
<1>2. top = h /\ pc[h] \in Boxes /\ pc[h] \in Places(h)
  BY <1>1 DEF StackInv, HandlerPlaces, CloseBox
<1>3. PICK p \in AfterOther[pc[h]] : Proceed(h, p)
  BY DEF CloseBox
<1>4. h # "again" /\ pc[h] # "idle"
  BY <1>2 DEF Places, Boxes, LockedBoxes, FreeBoxes
<1>5. CASE pc[h] \in LockedBoxes
  <2>1. p = "idle" /\ holder' = "free"
    BY <1>3, <1>5, AfterLockedBox DEF CloseBox
  <2>2. Resolved(h, p) = "idle"
    BY <2>1 DEF Resolved
  <2>3. Advance(h, "idle")
    BY <1>1, <1>3, <2>2, ProceedAdvances
  <2>4. \A g \in Handlers : pc'[g] = IF g = h THEN "idle" ELSE pc[g]
    BY <1>1, <2>3 DEF Advance, ChannelTypeOK
  <2>5. \A g \in Handlers : pc[g] \in LockedBoxes => g = h
    BY <1>1, <1>5, OneLockedBox
  <2>6. ~LockedBelow'
    BY <2>4, <2>5 DEF LockedBelow, LockedBoxes
  <2>7. coord # "read" /\ coord' = coord
    BY <1>1, <1>5 DEF OneUser, LockedBelow, CloseBox
  <2>8. OneUser'
    BY <2>1, <2>6, <2>7 DEF OneUser
  <2>9. "idle" \in Places(h) /\ "idle" \notin OpenOps
    BY DEF Places, OnServicePath, OpenOps
  <2> QED BY <1>1, <1>2, <1>4, <2>1, <2>3, <2>8, <2>9, AdvancePreserves
          DEF CloseBox, SyncNeedsLink, ChannelTypeOK
<1>6. CASE pc[h] \notin LockedBoxes
  <2>1. pc[h] \in FreeBoxes /\ UNCHANGED <<connected, holder, syncOn, coord, escaped>>
    BY <1>2, <1>6 DEF Boxes, CloseBox
  <2>2. p \in OnServicePath \cup {"goEnd"}
    BY <1>3, <2>1, AfterComputing
  <2>3. Resolved(h, p) \in Places(h) /\ (h = "open" => Resolved(h, p) \in GrabOps \cup {"idle"})
    <3>1. CASE h = "open"
      <4>1. pc[h] = "openBox"
        BY <1>2, <2>1, <3>1 DEF Places, FreeBoxes, OpenOps, GrabOps
      <4> QED BY <1>3, <3>1, <4>1, AfterOpenBox DEF Resolved, Places, GrabOps
    <3>2. CASE h = "keep"
      BY <1>2, <2>1, <3>2 DEF Places, FreeBoxes, KeepOps
    <3>3. CASE h \in {"tick", "button"}
      BY <2>2, <3>3 DEF Resolved, Places, OnServicePath, TickOps
    <3> QED BY <1>4, <3>1, <3>2, <3>3 DEF Handlers
  <2> QED BY <1>2, <1>3, <1>4, <1>6, <2>1, <2>2, <2>3, FreeStepPreserves
<1> QED BY <1>5, <1>6

\* Requests are made, taken and given back; the stack stays as it is.
LEMMA LockPreserves ==
    ASSUME ChannelInv,
           (\E h \in Handlers : LockUi(h)) \/ LockCoord \/ ReadCoord \/ UNCHANGED channelVars
    PROVE  ChannelInv'
<1>1. UNCHANGED <<connected, syncOn, syncBusy, top, below, pc, escaped>>
  BY DEF LockUi, LockCoord, ReadCoord, channelVars, stackVars
<1>2. LockedBelow' = LockedBelow /\ StackInv'
  BY <1>1 DEF LockedBelow, ChannelInv, StackInv, HandlerPlaces, SuspendedInBox, OpenAlone,
         LinkedPlaces, AgainOnTop
<1>3. ChannelTypeOK' /\ OneUser'
  BY <1>1, <1>2 DEF ChannelInv, ChannelTypeOK, OneUser, LockUi, LockCoord, ReadCoord,
         channelVars, stackVars
<1> QED BY <1>1, <1>2, <1>3 DEF ChannelInv, SyncNeedsLink, OnlyKeepAliveEscapes

LEMMA PageClosedPreserves == ChannelInv /\ PageClosed => ChannelInv'
<1> SUFFICES ASSUME ChannelInv, PageClosed PROVE ChannelInv'
  OBVIOUS
<1>1. /\ UNCHANGED <<connected, holder, syncBusy, top, below, pc, coord, escaped>>
      /\ ~syncOn' /\ syncOn' \in BOOLEAN
  BY Zenon DEF PageClosed, stackVars
<1>2. LockedBelow' = LockedBelow /\ StackInv'
  BY <1>1 DEF LockedBelow, ChannelInv, StackInv, HandlerPlaces, SuspendedInBox, OpenAlone,
         LinkedPlaces, AgainOnTop
<1> QED BY <1>1, <1>2 DEF ChannelInv, ChannelTypeOK, OneUser, SyncNeedsLink, OnlyKeepAliveEscapes

LEMMA ChannelStep == ChannelInv /\ [ChannelNext]_channelVars => ChannelInv'
<1> SUFFICES ASSUME ChannelInv, [ChannelNext]_channelVars PROVE ChannelInv'
  OBVIOUS
<1>1. CASE UNCHANGED channelVars
  BY <1>1, LockPreserves
<1>2. CASE ~escaped /\ Running
  <2>1. CASE TickFires \/ KeepFires \/ ButtonPressed
    BY <1>2, <2>1, MessagesPreserve
  <2>2. CASE Connect
    BY <1>2, <2>2, ConnectPreserves
  <2>3. ASSUME NEW h \in Handlers, HandlerStep(h) PROVE ChannelInv'
    <3>1. CASE LockUi(h)
      BY <1>2, <3>1, LockPreserves
    <3>2. CASE Transact(h)
      BY <1>2, <3>2, TransactPreserves
    <3>3. CASE Refuse(h)
      BY <1>2, <3>3, RefusePreserves
    <3>4. CASE Throw(h)
      BY <1>2, <3>4, ThrowPreserves
    <3>5. CASE Compute(h)
      BY <1>2, <3>5, ComputePreserves
    <3>6. CASE CloseBox(h)
      BY <1>2, <3>6, CloseBoxPreserves
    <3> QED BY <2>3, <3>1, <3>2, <3>3, <3>4, <3>5, <3>6 DEF HandlerStep
  <2>4. CASE LockCoord \/ ReadCoord
    BY <1>2, <2>4, LockPreserves
  <2>5. CASE PageClosed
    BY <2>5, PageClosedPreserves
  <2> QED BY <1>2, <2>1, <2>2, <2>3, <2>4, <2>5 DEF Running
<1> QED BY <1>1, <1>2 DEF ChannelNext, Ended

\* Handlers stay at places of their own, those suspended sit in a box, and the two
\* users of the connection exclude each other: no step of a handler, of the thread or
\* of a box breaks the invariant.
THEOREM ChannelInvariant == ChannelSpec => []ChannelInv
<1> QED BY ChannelInitInv, ChannelStep, PTL DEF ChannelSpec

\* Types: every handler is at a point of its own control flow, on a stack of
\* handlers.
THEOREM ChannelTyped == ChannelSpec => []ChannelTypeOK
<1>1. ChannelInv => ChannelTypeOK
  BY DEF ChannelInv
<1> QED BY <1>1, ChannelInvariant, PTL

\* Whoever uses the Modbus context holds m_modbusMutex alone: the UI thread's
\* requests, a box opened under the lock and the coordinate thread's reading
\* exclude each other, across message loops nested in boxes.
THEOREM OneUserAtATime == ChannelSpec => []OneUser
<1>1. ChannelInv => OneUser
  BY DEF ChannelInv
<1> QED BY <1>1, ChannelInvariant, PTL

\* A lock conflict never reaches WorkTab::OnTimer's catch, because every request of a
\* tick is made in a try block: only path generation and the page's own end stop the
\* sync timer.
THEOREM ConflictsKeepSync == ChannelSpec => OnlyPathErrorStopsSync
<1>1. ChannelInv /\ [ChannelNext]_channelVars =>
        [syncOn /\ ~syncOn' => top = None \/ (top = "tick" /\ pc["tick"] = "auto")]_channelVars
  <2> SUFFICES ASSUME ChannelInv, [ChannelNext]_channelVars, syncOn, ~syncOn'
               PROVE  top = None \/ (top = "tick" /\ pc["tick"] = "auto")
    OBVIOUS
  <2>1. \/ TickFires \/ KeepFires \/ ButtonPressed \/ PageClosed \/ Connect
        \/ \E h \in Handlers : HandlerStep(h)
        \/ LockCoord \/ ReadCoord \/ UNCHANGED syncOn
    BY DEF ChannelNext, Ended, Running, channelVars
  <2>2. CASE PageClosed
    BY <2>2 DEF PageClosed
  <2>3. ~(TickFires \/ KeepFires \/ ButtonPressed \/ Connect \/ LockCoord \/ ReadCoord)
    BY DEF TickFires, KeepFires, ButtonPressed, Connect, LockCoord, ReadCoord
  <2>4. ASSUME NEW h \in Handlers, HandlerStep(h)
        PROVE  top = "tick" /\ pc["tick"] = "auto"
    <3>1. ~(LockUi(h) \/ Transact(h) \/ Refuse(h) \/ CloseBox(h))
      BY DEF LockUi, Transact, Refuse, CloseBox
    <3>2. ~Throw(h)
      <4> SUFFICES ASSUME Throw(h) PROVE FALSE
        OBVIOUS
      <4>1. h = "tick" /\ pc["tick"] \in Ops \ Caught
        BY DEF Throw
      <4>2. pc["tick"] \in OnServicePath
        BY <4>1 DEF ChannelInv, StackInv, HandlerPlaces, Places
      <4> QED BY <4>1, <4>2 DEF OnServicePath, Ops, OpenOps, KeepOps, Caught, FreeBoxes, Computing
    <3>3. CASE Compute(h)
      BY <3>3 DEF Compute
    <3> QED BY <2>4, <3>1, <3>2, <3>3 DEF HandlerStep
  <2> QED BY <2>1, <2>2, <2>3, <2>4
<1> QED BY <1>1, ChannelInvariant, PTL DEF ChannelSpec, OnlyPathErrorStopsSync

\* An exception leaves a window procedure only from MachineTab::OnTimer, and only
\* inside the box that the same timer left open after a failed reading.
THEOREM OnlyKeepAlive == ChannelSpec => []OnlyKeepAliveEscapes
<1>1. ChannelInv => OnlyKeepAliveEscapes
  BY DEF ChannelInv
<1> QED BY <1>1, ChannelInvariant, PTL

-----------------------------------------------------------------------------
(* The stack of handlers, and what is given back on the way down.  ChannelInv  *)
(* says where each handler is; the invariant here adds that the running ones   *)
(* are linked through "below" without a gap or a repetition.                   *)

BusyTicks == syncBusy <=> pc["tick"] # "idle"

\* The UI thread has the mutex for the request of the handler on top, or for a box.
LockedRequest ==
    holder = "ui" => LockedBelow \/ (top \in Handlers /\ pc[top] \in Ops)

\* s lists the running handlers from the first to the one on top.
Stacked(n, s) ==
    /\ \A i, j \in 1 .. n : s[i] = s[j] => i = j
    /\ \A h \in Handlers : pc[h] # "idle" <=> \E i \in 1 .. n : s[i] = h
    /\ top = IF n = 0 THEN None ELSE s[n]
    /\ \A i \in 1 .. n : below[s[i]] = IF i = 1 THEN None ELSE s[i - 1]

OneStack == \E n \in Nat : \E s \in [1 .. n -> Handlers] : Stacked(n, s)

ReturnInv == BusyTicks /\ LockedRequest /\ OneStack

\* A step starts a handler, takes one off, moves the one on top, or does none of these.
Starts(h, q) == pc[h] = "idle" /\ q # "idle" /\ Push(h, q)
Moves(h, q)  == /\ top = h /\ pc[h] # "idle" /\ q # "idle"
                /\ Goto(h, q) /\ UNCHANGED <<top, below, syncBusy>>
Returns(h)   == top = h /\ pc[h] # "idle" /\ Return(h)

LEMMA ProceedMoves ==
    ASSUME NEW h \in Handlers, top = h, pc[h] # "idle", NEW p, Proceed(h, p)
    PROVE  Returns(h) \/ \E q : Moves(h, q)
<1> DEFINE q == Resolved(h, p)
<1>1. CASE q = "idle"
  BY <1>1 DEF Proceed, Resolved, Returns
<1>2. CASE q # "idle"
  <2>1. Goto(h, q) /\ UNCHANGED <<top, below, syncBusy>>
    BY <1>2 DEF Proceed, Resolved
  <2>2. Moves(h, q)
    BY <1>2, <2>1 DEF Moves
  <2> QED BY <2>2
<1> QED BY <1>1, <1>2

\* No handler starts twice: a tick is kept out by its flag, the operator's button by the
\* main message loop, the keep-alive by its two names.
LEMMA MessageStarts ==
    ASSUME ChannelInv, BusyTicks, OneStack, TickFires \/ KeepFires \/ ButtonPressed
    PROVE  \E h \in Handlers, q \in Points :
              Starts(h, q) /\ Pumping /\ (syncBusy' <=> syncBusy \/ h = "tick")
<1>1. CASE TickFires
  <2>1. "tick" \in Handlers /\ "r139fn" \in Points /\ "r139fn" # "idle"
    BY DEF Handlers, Points, Ops, TickOps
  <2>2. Starts("tick", "r139fn") /\ Pumping /\ syncBusy'
    BY <1>1, <2>1 DEF TickFires, Starts, BusyTicks
  <2> QED BY <2>1, <2>2
<1>2. CASE KeepFires
  <2>1. PICK h \in KeepAlives : (h = "keep" <=> pc["keep"] = "idle") /\ Push(h, "r0")
    BY <1>2 DEF KeepFires
  <2>2. h \in Handlers /\ "r0" \in Points /\ "r0" # "idle" /\ h # "tick"
    BY DEF KeepAlives, Handlers, Points, Ops, KeepOps
  <2>3. pc["again"] = "idle"
    <3>1. \A g \in Handlers : pc[g] # "idle" => pc[g] \in Boxes
      BY <1>2 DEF KeepFires, ChannelInv, StackInv, SuspendedInBox, Pumping, None, Handlers
    <3>2. pc["again"] \in {"idle", "r0"} /\ "again" \in Handlers
      BY DEF ChannelInv, StackInv, HandlerPlaces, Places, Handlers
    <3> QED BY <3>1, <3>2 DEF Boxes, LockedBoxes, FreeBoxes
  <2>4. Starts(h, "r0")
    BY <2>1, <2>2, <2>3 DEF Starts, KeepAlives
  <2> QED BY <1>2, <2>2, <2>4 DEF KeepFires
<1>3. CASE ButtonPressed
  <2>1. PICK q \in {"r186go", "goBox"} \cup GrabOps : Push("button", q)
    BY <1>3 DEF ButtonPressed
  <2>2. "button" \in Handlers /\ q \in Points /\ q # "idle" /\ "button" # "tick"
    BY DEF Handlers, Points, Ops, GoOps, GrabOps, Boxes, FreeBoxes
  <2>3. pc["button"] = "idle"
    <3>1. PICK n \in Nat : \E s \in [1 .. n -> Handlers] : Stacked(n, s)
      BY DEF OneStack
    <3>2. PICK s \in [1 .. n -> Handlers] : Stacked(n, s)
      BY <3>1
    <3>3. n = 0
      BY <1>3, <3>2 DEF ButtonPressed, Stacked, None, Handlers
    <3> QED BY <2>2, <3>2, <3>3 DEF Stacked
  <2>4. Starts("button", q) /\ Pumping
    BY <1>3, <2>1, <2>2, <2>3 DEF Starts, ButtonPressed, Pumping
  <2> QED BY <1>3, <2>2, <2>4 DEF ButtonPressed
<1> QED BY <1>1, <1>2, <1>3

LEMMA StackSteps ==
    ASSUME ChannelInv, BusyTicks, OneStack, [ChannelNext]_channelVars
    PROVE  \/ \E h \in Handlers, q \in Points :
                 Starts(h, q) /\ Pumping /\ (syncBusy' <=> syncBusy \/ h = "tick")
           \/ \E h \in Handlers : Returns(h)
           \/ \E h \in Handlers : \E q : Moves(h, q)
           \/ UNCHANGED <<stackVars, syncBusy>>
<1>1. CASE TickFires \/ KeepFires \/ ButtonPressed
  BY <1>1, MessageStarts
<1>2. CASE Connect
  <2>1. PICK q \in {"w145", "connectBox"} : Goto("open", q)
    BY <1>2 DEF Connect
  <2>2. Moves("open", q) /\ "open" \in Handlers
    BY <1>2, <2>1 DEF Connect, Moves, Handlers
  <2> QED BY <2>2
<1>3. ASSUME NEW h \in Handlers, Transact(h) PROVE Returns(h) \/ \E q : Moves(h, q)
  <2>1. top = h /\ pc[h] # "idle" /\ \E p : Proceed(h, p)
    BY <1>3 DEF Transact, Ops, OpenOps, KeepOps, TickOps, GoOps, GrabOps
  <2> QED BY <2>1, ProceedMoves
<1>4. ASSUME NEW h \in Handlers, Refuse(h) PROVE Returns(h) \/ \E q : Moves(h, q)
  <2>1. top = h /\ pc[h] # "idle" /\ \E p : Proceed(h, p)
    BY <1>4 DEF Refuse, Caught, TickOps, GoOps, GrabOps
  <2> QED BY <2>1, ProceedMoves
<1>5. ASSUME NEW h \in Handlers, Compute(h) \/ CloseBox(h)
      PROVE  Returns(h) \/ \E q : Moves(h, q)
  <2>1. top = h /\ pc[h] # "idle" /\ (Return(h) \/ \E p : Proceed(h, p))
    BY <1>5 DEF Compute, CloseBox, Computing, Boxes, LockedBoxes, FreeBoxes
  <2> QED BY <2>1, ProceedMoves DEF Returns
<1>6. ASSUME NEW h \in Handlers, Throw(h)
      PROVE  Returns(h) \/ UNCHANGED <<stackVars, syncBusy>>
  <2>1. top = h /\ pc[h] # "idle"
    BY <1>6 DEF Throw, Ops, OpenOps, KeepOps, TickOps, GoOps, GrabOps
  <2> QED BY <1>6, <2>1 DEF Throw, Returns
<1>7. ASSUME NEW h \in Handlers, LockUi(h) PROVE UNCHANGED <<stackVars, syncBusy>>
  BY <1>7 DEF LockUi
<1>8. CASE LockCoord \/ ReadCoord \/ PageClosed \/ UNCHANGED channelVars
  BY <1>8 DEF LockCoord, ReadCoord, PageClosed, channelVars
<1> QED
  BY <1>1, <1>2, <1>3, <1>4, <1>5, <1>6, <1>7, <1>8
  DEF ChannelNext, Ended, Running, HandlerStep

LEMMA BusyTicksStep ==
    ASSUME ChannelInv, BusyTicks, OneStack, [ChannelNext]_channelVars
    PROVE  BusyTicks'
<1>t. "tick" \in Handlers /\ pc \in [Handlers -> Points] /\ syncBusy \in BOOLEAN
  BY DEF Handlers, ChannelInv, ChannelTypeOK
<1>1. ASSUME NEW h \in Handlers, NEW q \in Points, Starts(h, q),
             syncBusy' <=> syncBusy \/ h = "tick"
      PROVE  BusyTicks'
  BY <1>1, <1>t DEF Starts, Push, Goto, BusyTicks
<1>2. ASSUME NEW h \in Handlers, Returns(h) PROVE BusyTicks'
  BY <1>2, <1>t DEF Returns, Return, Goto, BusyTicks
<1>3. ASSUME NEW h \in Handlers, NEW q, Moves(h, q) PROVE BusyTicks'
  BY <1>3, <1>t DEF Moves, Goto, BusyTicks
<1>4. CASE UNCHANGED <<stackVars, syncBusy>>
  BY <1>4 DEF stackVars, BusyTicks
<1> QED BY <1>1, <1>2, <1>3, <1>4, StackSteps

LEMMA OneStackStep ==
    ASSUME ChannelInv, BusyTicks, OneStack, [ChannelNext]_channelVars
    PROVE  OneStack'
<1>t. /\ pc \in [Handlers -> Points] /\ below \in [Handlers -> Handlers \cup {None}]
      /\ None \notin Handlers
  BY DEF Handlers, None, ChannelInv, ChannelTypeOK
<1>a. PICK n \in Nat : \E s \in [1 .. n -> Handlers] : Stacked(n, s)
  BY DEF OneStack
<1>b. PICK s \in [1 .. n -> Handlers] : Stacked(n, s)
  BY <1>a
<1>1. ASSUME NEW h \in Handlers, NEW q \in Points, Starts(h, q) PROVE OneStack'
  <2> DEFINE z == [i \in 1 .. n + 1 |-> IF i = n + 1 THEN h ELSE s[i]]
  <2>1. \A i \in 1 .. n : s[i] # h
    BY <1>1, <1>b DEF Starts, Stacked
  <2>2. \A g \in Handlers : /\ pc'[g] = IF g = h THEN q ELSE pc[g]
                            /\ below'[g] = IF g = h THEN top ELSE below[g]
    BY <1>1, <1>t DEF Starts, Push, Goto
  <2>3. z \in [1 .. n + 1 -> Handlers] /\ z[n + 1] = h /\ \A i \in 1 .. n : z[i] = s[i]
    OBVIOUS
  <2> HIDE DEF z
  <2>4. \A i, j \in 1 .. n + 1 : z[i] = z[j] => i = j
    BY <1>b, <2>1, <2>3 DEF Stacked
  <2>5. \A g \in Handlers : pc'[g] # "idle" <=> \E i \in 1 .. n + 1 : z[i] = g
    <3>1. TAKE g \in Handlers
    <3>2. CASE g = h
      BY <1>1, <2>2, <2>3, <3>2 DEF Starts
    <3>3. CASE g # h
      <4>1. (\E i \in 1 .. n + 1 : z[i] = g) <=> \E i \in 1 .. n : s[i] = g
        BY <2>3, <3>3
      <4> QED BY <1>b, <2>2, <3>3, <4>1 DEF Stacked
    <3> QED BY <3>2, <3>3
  <2>6. top' = z[n + 1]
    BY <1>1, <2>3 DEF Starts, Push
  <2>7. \A i \in 1 .. n + 1 : below'[z[i]] = IF i = 1 THEN None ELSE z[i - 1]
    <3>1. TAKE i \in 1 .. n + 1
    <3>2. CASE i = n + 1
      BY <1>b, <2>2, <2>3, <3>2 DEF Stacked
    <3>3. CASE i \in 1 .. n
      BY <1>b, <2>1, <2>2, <2>3, <3>3 DEF Stacked
    <3> QED BY <3>2, <3>3
  <2>8. Stacked(n + 1, z)' /\ n + 1 \in Nat
    BY <2>4, <2>5, <2>6, <2>7 DEF Stacked
  <2> QED BY <2>3, <2>8 DEF OneStack
<1>2. ASSUME NEW h \in Handlers, Returns(h) PROVE OneStack'
  <2>1. n # 0 /\ s[n] = h /\ n - 1 \in Nat
    BY <1>2, <1>b, <1>t DEF Returns, Stacked
  <2> DEFINE z == [i \in 1 .. n - 1 |-> s[i]]
  <2>2. \A g \in Handlers : /\ pc'[g] = IF g = h THEN "idle" ELSE pc[g]
                            /\ g # h => below'[g] = below[g]
    BY <1>2, <1>t DEF Returns, Return, Goto
  <2>3. /\ z \in [1 .. n - 1 -> Handlers]
        /\ \A i \in 1 .. n - 1 : z[i] = s[i] /\ s[i] # h
    BY <1>b, <2>1 DEF Stacked
  <2> HIDE DEF z
  <2>4. \A i, j \in 1 .. n - 1 : z[i] = z[j] => i = j
    BY <1>b, <2>3 DEF Stacked
  <2>5. \A g \in Handlers : pc'[g] # "idle" <=> \E i \in 1 .. n - 1 : z[i] = g
    <3>1. TAKE g \in Handlers
    <3>2. CASE g = h
      BY <2>2, <2>3, <3>2
    <3>3. CASE g # h
      <4>1. (\E i \in 1 .. n - 1 : z[i] = g) <=> \E i \in 1 .. n : s[i] = g
        BY <2>1, <2>3, <3>3
      <4> QED BY <1>b, <2>2, <3>3, <4>1 DEF Stacked
    <3> QED BY <3>2, <3>3
  <2>6. top' = IF n - 1 = 0 THEN None ELSE z[n - 1]
    BY <1>2, <1>b, <2>1, <2>3 DEF Returns, Return, Stacked
  <2>7. \A i \in 1 .. n - 1 : below'[z[i]] = IF i = 1 THEN None ELSE z[i - 1]
    BY <1>b, <2>2, <2>3 DEF Stacked
  <2>8. Stacked(n - 1, z)'
    BY <2>4, <2>5, <2>6, <2>7 DEF Stacked
  <2> QED BY <2>1, <2>3, <2>8 DEF OneStack
<1>3. ASSUME NEW h \in Handlers, NEW q, Moves(h, q) PROVE OneStack'
  <2>1. \A g \in Handlers : pc'[g] # "idle" <=> pc[g] # "idle"
    BY <1>3, <1>t DEF Moves, Goto
  <2>2. Stacked(n, s)'
    BY <1>3, <1>b, <2>1 DEF Moves, Stacked
  <2> QED BY <2>2 DEF OneStack
<1>4. CASE UNCHANGED <<stackVars, syncBusy>>
  <2>1. Stacked(n, s)'
    BY <1>4, <1>b DEF stackVars, Stacked
  <2> QED BY <2>1 DEF OneStack
<1> QED BY <1>1, <1>2, <1>3, <1>4, StackSteps

\* The mutex is taken for a request, and either given back with it or kept for a box.
LEMMA LockedRequestStep ==
    ASSUME ChannelInv, BusyTicks, OneStack, LockedRequest, [ChannelNext]_channelVars
    PROVE  LockedRequest'
<1>t. /\ pc \in [Handlers -> Points] /\ OneUser /\ None \notin Handlers
  BY DEF Handlers, None, ChannelInv, ChannelTypeOK
<1>o. /\ Ops \cap Boxes = {} /\ Ops \cap Computing = {} /\ Ops \cap LockedBoxes = {}
      /\ LockedBoxes \subseteq Boxes
  BY DEF Ops, OpenOps, KeepOps, TickOps, GoOps, GrabOps, Boxes, LockedBoxes, FreeBoxes,
         Computing
<1>1. CASE TickFires \/ KeepFires \/ ButtonPressed
  <2>1. holder' = holder /\ Pumping
    BY <1>1, MessageStarts DEF TickFires, KeepFires, ButtonPressed
  <2>2. PICK h \in Handlers, q \in Points : Starts(h, q)
    BY <1>1, MessageStarts
  <2>3. holder = "ui" => LockedBelow
    BY <2>1, <1>t, <1>o DEF LockedRequest, Pumping
  <2>4. LockedBelow => LockedBelow'
    <3>1. \A g \in Handlers : pc[g] \in LockedBoxes => g # h /\ pc'[g] = pc[g]
      BY <1>t, <2>2 DEF Starts, Push, Goto, LockedBoxes
    <3> QED BY <3>1 DEF LockedBelow
  <2> QED BY <2>1, <2>3, <2>4 DEF LockedRequest
<1>2. CASE Connect
  <2>1. holder' = "ui" => Goto("open", "connectBox") /\ "open" \in Handlers
    BY <1>2 DEF Connect, Handlers
  <2> QED BY <1>t, <2>1 DEF LockedRequest, LockedBelow, LockedBoxes, Goto
<1>3. ASSUME NEW h \in Handlers, LockUi(h) PROVE LockedRequest'
  BY <1>3 DEF LockUi, stackVars, LockedRequest
<1>4. ASSUME NEW h \in Handlers, Transact(h) PROVE LockedRequest'
  <2>1. PICK ok \in BOOLEAN : \E p \in AfterRequest(pc[h], ok) :
            Proceed(h, p) /\ holder' = IF p \in LockedBoxes THEN "ui" ELSE "free"
    BY <1>4 DEF Transact
  <2>2. PICK p \in AfterRequest(pc[h], ok) :
            Proceed(h, p) /\ holder' = IF p \in LockedBoxes THEN "ui" ELSE "free"
    BY <2>1
  <2>3. CASE p \in LockedBoxes
    <3>1. Resolved(h, p) = p
      BY <2>3 DEF Resolved, LockedBoxes
    <3>2. pc' = [pc EXCEPT ![h] = p]
      BY <2>2, <3>1, ProceedAdvances DEF Advance, ChannelInv
    <3> QED BY <1>t, <2>3, <3>2 DEF LockedRequest, LockedBelow
  <2>4. CASE p \notin LockedBoxes
    BY <2>2, <2>4 DEF LockedRequest
  <2> QED BY <2>3, <2>4
<1>5. ASSUME NEW h \in Handlers, Refuse(h) \/ Compute(h) \/ (CloseBox(h) /\ pc[h] \notin LockedBoxes)
      PROVE  LockedRequest'
  <2>1. /\ top = h /\ holder' = holder /\ pc[h] \notin LockedBoxes
        /\ pc[h] \in Ops => ~connected \/ LockedBelow
        /\ Return(h) \/ \E p : Proceed(h, p)
    BY <1>5, <1>o DEF Refuse, Compute, CloseBox, Caught, Ops, Computing, LockedBoxes
  <2>2. holder = "ui" => LockedBelow
    BY <1>t, <2>1 DEF LockedRequest, OneUser
  <2>3. \E q : pc' = [pc EXCEPT ![h] = q]
    BY <2>1, ProceedAdvances DEF Advance, ChannelInv, Return, Goto
  <2>4. LockedBelow => LockedBelow'
    <3>1. \A g \in Handlers : pc[g] \in LockedBoxes => pc'[g] = pc[g]
      BY <1>t, <2>1, <2>3
    <3> QED BY <3>1 DEF LockedBelow
  <2> QED BY <2>1, <2>2, <2>4 DEF LockedRequest
<1>6. ASSUME NEW h \in Handlers, CloseBox(h), pc[h] \in LockedBoxes PROVE LockedRequest'
  BY <1>6 DEF CloseBox, LockedRequest
<1>7. ASSUME NEW h \in Handlers, Throw(h) PROVE LockedRequest'
  <2>1. PICK g \in Handlers : pc[g] \in LockedBoxes
    BY <1>7 DEF Throw, LockedBelow
  <2>2. g # h
    BY <1>7, <1>o, <2>1 DEF Throw
  <2>3. pc'[g] = pc[g]
    BY <1>7, <1>t, <2>2 DEF Throw, Return, Goto, stackVars
  <2> QED BY <2>1, <2>3 DEF LockedRequest, LockedBelow
<1>8. CASE LockCoord \/ ReadCoord \/ PageClosed
  BY <1>8 DEF LockCoord, ReadCoord, PageClosed, stackVars, LockedRequest, LockedBelow
<1>9. CASE UNCHANGED channelVars
  BY <1>9 DEF channelVars, stackVars, LockedRequest, LockedBelow
<1> QED
  BY <1>1, <1>2, <1>3, <1>4, <1>5, <1>6, <1>7, <1>8, <1>9
  DEF ChannelNext, Ended, Running, HandlerStep

LEMMA ReturnInit == ChannelInit => ReturnInv
<1> SUFFICES ASSUME ChannelInit PROVE ReturnInv
  OBVIOUS
<1> DEFINE z == [i \in 1 .. 1 |-> "open"]
<1>1. z \in [1 .. 1 -> Handlers] /\ z[1] = "open"
  BY DEF Handlers
<1> HIDE DEF z
<1>2. Stacked(1, z)
  BY <1>1 DEF Stacked, ChannelInit, Handlers
<1>3. OneStack
  BY <1>1, <1>2 DEF OneStack
<1>4. BusyTicks /\ LockedRequest
  BY DEF ChannelInit, BusyTicks, LockedRequest, Handlers
<1> QED BY <1>3, <1>4 DEF ReturnInv

\* What a handler takes it gives back: the sync flag is up just while a tick is on the
\* stack, a message that is dispatched finds the mutex with the UI thread only above a box
\* opened under it, and when the main message loop is back every handler has returned.
THEOREM EverythingGivenBack == ChannelSpec => []NothingLeftBehind
<1>1. ChannelInv /\ ReturnInv /\ [ChannelNext]_channelVars => ReturnInv'
  BY BusyTicksStep, LockedRequestStep, OneStackStep DEF ReturnInv
<1>2. ChannelInv /\ ReturnInv => NothingLeftBehind
  <2> SUFFICES ASSUME ChannelInv, BusyTicks, LockedRequest, OneStack PROVE NothingLeftBehind
    BY DEF ReturnInv
  <2>1. Pumping /\ holder = "ui" => LockedBelow
    BY DEF LockedRequest, Pumping, None, Handlers, Ops, OpenOps, KeepOps, TickOps, GoOps,
           GrabOps, Boxes, LockedBoxes, FreeBoxes
  <2>2. top = None => \A h \in Handlers : pc[h] = "idle"
    <3>1. PICK n \in Nat : \E s \in [1 .. n -> Handlers] : Stacked(n, s)
      BY DEF OneStack
    <3>2. PICK s \in [1 .. n -> Handlers] : Stacked(n, s)
      BY <3>1
    <3>3. top = None => n = 0
      BY <3>2 DEF Stacked, None, Handlers
    <3> QED BY <3>2, <3>3 DEF Stacked
  <2> QED BY <2>1, <2>2 DEF NothingLeftBehind, BusyTicks
<1> QED BY <1>1, <1>2, ReturnInit, ChannelInvariant, PTL DEF ChannelSpec

=============================================================================
