-------------------------- MODULE CustomerCartProofs --------------------------
(***************************************************************************)
(* Theorems about CustomerCart, for any number of changes on their way, any *)
(* carts and any number of clicks, failures and sessions.                  *)
(*                                                                         *)
(* The argument: the page counts exactly the changes it will still hear of; *)
(* a change that was alone from its click to its answer brings back the    *)
(* server's cart, and its count is one, so the answer is taken over; the   *)
(* GET that replaces a failed change was sent when no other was under way, *)
(* so nothing is written until it is answered or overlapped.               *)
(***************************************************************************)
EXTENDS CustomerCart, FiniteSetTheorems, SequenceTheorems, TLAPS

-----------------------------------------------------------------------------
(* Carts.                                                                  *)

\* What maps an initial segment of the numbers to S is a sequence over S.
LEMMA IsSequence ==
  ASSUME NEW S, NEW n \in Nat, NEW f \in [1..n -> S]
  PROVE  f \in Seq(S)
  OBVIOUS

\* What the server holds is shown as lines of the account.
LEMMA FromServerLines ==
  ASSUME NEW ls \in ServerLines
  PROVE  FromServer(ls) \in Lines
  <1>1. Len(ls) \in Nat /\ DOMAIN ls = 1..Len(ls) /\ \A i \in 1..Len(ls) : ls[i] \in Nat
    BY DEF ServerLines
  <1>2. FromServer(ls) \in [1..Len(ls) -> [qty : Nat, of : {"guest", "account"}]]
    BY <1>1 DEF FromServer, Line
  <1> QED BY <1>1, <1>2, IsSequence DEF Lines

LEMMA FromServerEmpty == FromServer(<<>>) = <<>>
  BY DEF FromServer

\* A click on a well-formed cart shows a well-formed cart.
LEMMA OptimisticLines ==
  ASSUME shown \in Lines, NEW op \in Ops \ {"clear"}, NEW of \in {"guest", "account"},
         op = "update" => shown # <<>>
  PROVE  Optimistic(op, of) \in Lines
  <1> DEFINE Known == [qty : Nat, of : {"guest", "account"}]
  <1>0. shown \in Seq(Known)
    BY DEF Lines
  <1> HIDE DEF Known
  <1>1. Len(shown) \in Nat /\ DOMAIN shown = 1..Len(shown) /\ \A i \in 1..Len(shown) : shown[i] \in Known
    BY <1>0
  <1> USE DEF Known
  <1>2. CASE op = "add"
    <2>1. CASE shown = <<>>
      BY <1>2, <2>1 DEF Optimistic, Line, Lines
    <2>2. CASE shown # <<>>
      <3>1. Incremented(1) \in [1..Len(shown) -> Known]
        BY <1>1 DEF Incremented
      <3> QED BY <1>2, <2>2, <1>1, <3>1, IsSequence DEF Optimistic, Lines
    <2> QED BY <2>1, <2>2
  <1>3. CASE op = "update"
    <2>1. shown[1] \in Known
      BY <1>1, <1>3
    <2>2. Optimistic(op, of) \in [1..Len(shown) -> Known]
      BY <1>1, <2>1, <1>3 DEF Optimistic
    <2> QED BY <1>1, <2>2, IsSequence DEF Lines
  <1>4. CASE op = "remove"
    BY <1>4 DEF Optimistic, Lines
  <1> QED BY <1>2, <1>3, <1>4 DEF Ops

-----------------------------------------------------------------------------
(* Level one: the types, and the count of the answers that are awaited.    *)

\* Requests whose answer the page counts.
Awaited == {r \in Requests : ~At(r, "idle") /\ ~req[r].deaf /\ req[r].op # "clear"}

CountInv == IsFiniteSet(Awaited) /\ pending = Cardinality(Awaited) /\ pending <= clicks

PageType    == shown \in Lines /\ stored \in Lines /\ before \in Lines /\ timer \in BOOLEAN
FlagType    == auth \in BOOLEAN /\ leaving \in BOOLEAN /\ doubt \in BOOLEAN
NetworkType ==
    /\ req \in [Requests -> Changes] /\ get \in Gets
    /\ cache \in ServerLines \cup {None}
    /\ db \in [lines : ServerLines, ver : Nat]
BoundType   ==
    clicks \in 0..MaxClicks /\ faults \in 0..MaxFaults /\ sessions \in 0..MaxSessions

LEMMA TypeParts ==
  TypeOK <=> PageType /\ FlagType /\ NetworkType /\ BoundType /\ pending \in 0..MaxClicks
  BY DEF TypeOK, PageType, FlagType, NetworkType, BoundType

LEMMA SetCartType ==
  ASSUME PageType, NEW new \in Lines, SetCart(new)
  PROVE  PageType'
  BY DEF PageType, SetCart

LEMMA FetchType ==
  ASSUME TypeOK, FetchCart
  PROVE  PageType' /\ get' \in Gets
  <1> USE TypeParts
  <1>1. CASE cache # None
    <2>1. cache \in ServerLines
      BY <1>1 DEF NetworkType
    <2> QED BY <1>1, <2>1, FromServerLines, SetCartType DEF FetchCart, NetworkType
  <1>2. CASE cache = None
    <2>1. NoGet \in Gets
      BY DEF NoGet, Gets, ServerLines
    <2>2. get' \in Gets
      BY <1>2, <2>1 DEF FetchCart, NetworkType, Gets
    <2>3. UNCHANGED page
      BY <1>2 DEF FetchCart
    <2> QED BY <2>2, <2>3 DEF PageType, page
  <1> QED BY <1>1, <1>2

Writes == [lines : ServerLines, where : BOOLEAN, inc : Nat]

\* What a handler writes to the cart document is a well-formed document.
LEMMA WritesType ==
  ASSUME TypeOK
  PROVE  /\ \A q \in Nat : SetFirst(q) \in Writes
         /\ Push \in Writes /\ Empty \in Writes /\ Nothing \in Writes
  <1>1. db.lines \in Seq(Nat) /\ <<>> \in Seq(Nat)
    BY DEF TypeOK, ServerLines
  <1>2. Append(db.lines, 1) \in Seq(Nat)
    BY <1>1
  <1>3. ASSUME NEW q \in Nat PROVE SetFirst(q) \in Writes
    <2>1. Len(db.lines) \in Nat /\ DOMAIN db.lines = 1..Len(db.lines)
      BY <1>1
    <2>2. [i \in DOMAIN db.lines |-> IF i = 1 THEN q ELSE db.lines[i]] \in [1..Len(db.lines) -> Nat]
      BY <1>1, <2>1, <1>3
    <2> QED BY <2>1, <2>2, IsSequence DEF SetFirst, Writes, ServerLines
  <1> QED BY <1>1, <1>2, <1>3 DEF Push, Empty, Nothing, Writes, ServerLines

LEMMA SavesType ==
  ASSUME TypeOK, NEW r \in Requests, NEW write \in Writes, Saves(r, write)
  PROVE  /\ db' \in [lines : ServerLines, ver : Nat]
         /\ req' \in [Requests -> Changes]
         /\ \E label \in {"saved", "error"} : req' = [req EXCEPT ![r].pc = label]
  BY DEF TypeOK, Saves, Writes, Changes, Places

LEMMA SaveType ==
  ASSUME TypeOK, NEW r \in Requests, Save(r)
  PROVE  /\ db' \in [lines : ServerLines, ver : Nat]
         /\ req' \in [Requests -> Changes]
         /\ \E label \in {"saved", "error"} : req' = [req EXCEPT ![r].pc = label]
  <1> DEFINE seen == req[r].cart
  <1>1. seen \in Seq(Nat) /\ req[r].qty \in Nat /\ req[r].op \in Ops /\ Len(seen) \in Nat
        /\ (seen # <<>> => seen[1] \in Nat)
    BY DEF TypeOK, Changes, ServerLines
  <1>2. CASE req[r].op = "add"
    <2>1. Saves(r, IF seen = <<>> THEN Push ELSE SetFirst(seen[1] + 1))
      BY <1>2 DEF Save
    <2>2. (IF seen = <<>> THEN Push ELSE SetFirst(seen[1] + 1)) \in Writes
      BY <1>1, WritesType
    <2> QED BY <2>1, <2>2, SavesType
  <1>3. CASE req[r].op = "update" /\ seen # <<>>
    <2>1. Saves(r, SetFirst(req[r].qty))
      BY <1>3 DEF Save
    <2> QED BY <1>1, <2>1, WritesType, SavesType
  <1>4. CASE req[r].op = "update" /\ seen = <<>>
    <2>1. req' = [req EXCEPT ![r].pc = "error"] /\ UNCHANGED db
      BY <1>4 DEF Save
    <2> QED BY <2>1 DEF TypeOK, Changes, Places
  <1>5. CASE req[r].op \in {"remove", "clear"}
    <2>1. Saves(r, IF seen = <<>> THEN Nothing ELSE Empty)
      BY <1>5 DEF Save
    <2>2. (IF seen = <<>> THEN Nothing ELSE Empty) \in Writes
      BY WritesType
    <2> QED BY <2>1, <2>2, SavesType
  <1> QED BY <1>1, <1>2, <1>3, <1>4, <1>5 DEF Ops

\* The first line that is shown has a quantity.
LEMMA FirstQuantity ==
  ASSUME TypeOK, shown # <<>>
  PROVE  shown[1].qty \in Nat
  <1> DEFINE Known == [qty : Nat, of : {"guest", "account"}]
  <1>1. shown \in Seq(Known)
    BY DEF TypeOK, Lines
  <1> HIDE DEF Known
  <1>2. shown[1] \in Known
    BY <1>1
  <1> QED BY <1>2 DEF Known

LEMMA SentType ==
  ASSUME TypeOK, NEW r \in Requests, NEW op \in Ops, op = "update" => shown # <<>>
  PROVE  Sent(r, op) \in [Requests -> Changes]
  <1>1. op = "update" => shown[1].qty + 1 \in Nat
    BY FirstQuantity
  <1>2. NoRequest \in Changes /\ "sent" \in Places /\ Quiet \in BOOLEAN
    BY DEF NoRequest, Changes, Places, Ops, ServerLines, Quiet
  <1>3. [NoRequest EXCEPT !.pc = "sent", !.op = op, !.alone = Quiet,
                          !.qty = IF op = "update" THEN shown[1].qty + 1 ELSE 0] \in Changes
    BY <1>1, <1>2 DEF Changes
  <1>4. \A q \in Requests : [req[q] EXCEPT !.alone = FALSE] \in Changes
    BY DEF TypeOK, Changes
  <1> QED BY <1>3, <1>4 DEF Sent

\* What a step does to the page and to the network is of their types.
Typed == PageType' /\ FlagType' /\ NetworkType' /\ BoundType'

LEMMA EndedType ==
  ASSUME TypeOK, NEW r \in Requests
  PROVE  Ended(r) \in [Requests -> Changes]
  BY DEF TypeOK, Ended, NoRequest, Changes, Places, Ops, ServerLines

LEMMA ServedTyped ==
  ASSUME TypeOK, NEW r \in Requests, Serve(r) \/ Unheard(r) \/ Lost(r)
  PROVE  Typed
  <1> USE CustomerCartAssumption
  <1>1. req' \in [Requests -> Changes] /\ db' \in [lines : ServerLines, ver : Nat]
    <2>1. CASE Read(r)
      <3>1. db.lines \in ServerLines /\ db.ver \in Nat
        BY DEF TypeOK
      <3>2. \A q \in Requests : [req[q] EXCEPT !.pc = "read", !.cart = db.lines, !.ver = db.ver] \in Changes
        BY <3>1 DEF TypeOK, Changes, Places
      <3>3. req' = [req EXCEPT ![r].pc = "read", ![r].cart = db.lines, ![r].ver = db.ver] /\ db' = db
        BY <2>1 DEF Read
      <3> QED BY <3>2, <3>3 DEF TypeOK
    <2>2. CASE Save(r)
      BY <2>2, SaveType
    <2>3. CASE Answer(r)
      <3>1. db.lines \in ServerLines
        BY DEF TypeOK
      <3>2. \A q \in Requests : [req[q] EXCEPT !.pc = "answered", !.cart = db.lines] \in Changes
        BY <3>1 DEF TypeOK, Changes, Places
      <3>3. req' = [req EXCEPT ![r].pc = "answered", ![r].cart = db.lines] /\ db' = db
        BY <2>3 DEF Answer
      <3> QED BY <3>2, <3>3 DEF TypeOK
    <2>4. CASE Unheard(r)
      BY <2>4, EndedType DEF Unheard, TypeOK
    <2>5. CASE Lost(r)
      BY <2>5 DEF Lost, TypeOK, Changes, Places
    <2> QED BY <2>1, <2>2, <2>3, <2>4, <2>5 DEF Serve
  <1>2. UNCHANGED <<auth, leaving, page, get, cache, doubt, clicks, sessions>>
        /\ faults' \in 0..MaxFaults
    BY DEF Serve, Read, Save, Answer, Unheard, Lost, Fault, bounds, TypeOK
  <1> QED BY <1>1, <1>2, TypeParts DEF Typed, PageType, FlagType, NetworkType, BoundType, page

LEMMA AnsweredTyped ==
  ASSUME TypeOK, NEW r \in Requests, Answered(r)
  PROVE  Typed
  <1>1. PageType'
    <2>1. <<>> \in Lines /\ FromServer(req[r].cart) \in Lines
      BY FromServerLines DEF TypeOK, Changes, Lines
    <2>2. SetCart(<<>>) \/ SetCart(FromServer(req[r].cart)) \/ UNCHANGED page
      BY DEF Answered
    <2> QED BY <2>1, <2>2, SetCartType, TypeParts DEF PageType, page
  <1>2. req' \in [Requests -> Changes]
    BY EndedType DEF Answered
  <1>3. doubt' \in BOOLEAN /\ UNCHANGED <<auth, leaving, get, cache, db, bounds>>
    BY DEF Answered
  <1> QED BY <1>1, <1>2, <1>3, TypeParts DEF Typed, FlagType, NetworkType, BoundType, bounds

LEMMA FailedTyped ==
  ASSUME TypeOK, NEW r \in Requests, Failed(r)
  PROVE  Typed
  <1>1. PageType' /\ get' \in Gets
    <2>1. FetchCart \/ UNCHANGED <<page, get>>
      BY DEF Failed, CatchBlock
    <2> QED BY <2>1, FetchType, TypeParts DEF PageType, NetworkType, page
  <1>2. req' \in [Requests -> Changes]
    BY EndedType DEF Failed
  <1>3. doubt' \in BOOLEAN /\ UNCHANGED <<auth, leaving, cache, db, bounds>>
    BY DEF Failed
  <1> QED BY <1>1, <1>2, <1>3, TypeParts DEF Typed, FlagType, NetworkType, BoundType, bounds

LEMMA BreaksOffTyped ==
  ASSUME TypeOK, NEW r \in Requests, BreaksOff(r)
  PROVE  Typed
  <1> USE CustomerCartAssumption
  <1>1. PageType' /\ get' \in Gets
    <2>1. FetchCart \/ UNCHANGED <<page, get>>
      BY DEF BreaksOff, CatchBlock
    <2> QED BY <2>1, FetchType, TypeParts DEF PageType, NetworkType, page
  <1>2. req' \in [Requests -> Changes]
    BY DEF BreaksOff, TypeOK, Changes
  <1>3. doubt' \in BOOLEAN /\ UNCHANGED <<auth, leaving, cache, db, clicks, sessions>>
        /\ faults' \in 0..MaxFaults
    BY DEF BreaksOff, Fault, TypeOK
  <1> QED BY <1>1, <1>2, <1>3, TypeParts DEF Typed, FlagType, NetworkType, BoundType

LEMMA ClickTyped ==
  ASSUME TypeOK, NEW r \in Requests, NEW op \in Ops, Click(r, op)
  PROVE  Typed
  <1> USE CustomerCartAssumption
  <1>1. PageType'
    <2>1. CASE op = "clear"
      BY <2>1, TypeParts DEF Click, PageType, page
    <2>2. CASE op # "clear"
      <3>1. SetCart(Optimistic(op, "account"))
        BY <2>2 DEF Click
      <3>2. Optimistic(op, "account") \in Lines
        BY <2>2, OptimisticLines DEF Click, TypeOK
      <3> QED BY <3>1, <3>2, SetCartType, TypeParts
    <2> QED BY <2>1, <2>2
  <1>2. req' \in [Requests -> Changes]
    BY SentType DEF Click
  <1>3. get' \in Gets /\ cache' \in ServerLines \cup {None}
    BY DEF Click, TypeOK, Gets
  <1>4. doubt' \in BOOLEAN /\ clicks' \in 0..MaxClicks
        /\ UNCHANGED <<auth, leaving, db, faults, sessions>>
    BY DEF Click, TypeOK
  <1> QED BY <1>1, <1>2, <1>3, <1>4, TypeParts DEF Typed, FlagType, NetworkType, BoundType

LEMMA GuestClickTyped ==
  ASSUME TypeOK, NEW op \in Ops, GuestClick(op)
  PROVE  Typed
  <1> USE CustomerCartAssumption
  <1>1. (IF op = "clear" THEN <<>> ELSE Optimistic(op, "guest")) \in Lines
    <2>1. <<>> \in Lines
      BY DEF Lines
    <2> QED BY <2>1, OptimisticLines DEF GuestClick, TypeOK
  <1>2. PageType'
    BY <1>1, SetCartType, TypeParts DEF GuestClick
  <1>3. clicks' \in 0..MaxClicks /\ UNCHANGED <<auth, leaving, network, doubt, faults, sessions>>
    BY DEF GuestClick, TypeOK
  <1> QED BY <1>2, <1>3, TypeParts DEF Typed, FlagType, NetworkType, BoundType, network

LEMMA GetTyped ==
  ASSUME TypeOK, WriteTimer \/ GetRead \/ GetAnswered \/ GetFails \/ CacheExpires
  PROVE  Typed
  <1> USE CustomerCartAssumption
  <1>0. NoGet \in Gets
    BY DEF NoGet, Gets, ServerLines
  <1>1. CASE WriteTimer
    BY <1>1, TypeParts DEF WriteTimer, Typed, PageType, FlagType, NetworkType, BoundType, network, bounds
  <1>2. CASE GetRead
    <2>1. get' \in Gets
      BY <1>2 DEF GetRead, TypeOK, Gets
    <2> QED BY <1>2, <2>1, TypeParts DEF GetRead, Typed, PageType, FlagType, NetworkType, BoundType, page, bounds
  <1>3. CASE GetAnswered
    <2>1. get.cart \in ServerLines
      BY DEF TypeOK, Gets
    <2>2. PageType'
      BY <1>3, <2>1, FromServerLines, SetCartType, TypeParts DEF GetAnswered
    <2> QED BY <1>0, <1>3, <2>1, <2>2, TypeParts
            DEF GetAnswered, Typed, FlagType, NetworkType, BoundType, bounds
  <1>4. CASE GetFails
    <2>1. faults' \in 0..MaxFaults /\ UNCHANGED <<clicks, sessions>>
      BY <1>4 DEF GetFails, Fault, TypeOK
    <2> QED BY <1>0, <1>4, <2>1, TypeParts
            DEF GetFails, Typed, PageType, FlagType, NetworkType, BoundType, page
  <1>5. CASE CacheExpires
    BY <1>5, TypeParts DEF CacheExpires, Typed, PageType, FlagType, NetworkType, BoundType, page, bounds
  <1> QED BY <1>1, <1>2, <1>3, <1>4, <1>5

LEMMA SentGetType ==
  NoGet \in Gets /\ \A b \in BOOLEAN : [NoGet EXCEPT !.pc = "sent", !.alone = b] \in Gets
  <1>1. NoGet \in Gets
    BY DEF NoGet, Gets, ServerLines
  <1>2. \A g \in Gets, b \in BOOLEAN : [g EXCEPT !.pc = "sent", !.alone = b] \in Gets
    BY DEF Gets
  <1> QED BY <1>1, <1>2, Zenon

LEMMA LoadType ==
  ASSUME TypeOK, Load
  PROVE  PageType' /\ req' \in [Requests -> Changes] /\ get' \in Gets
         /\ cache' = None /\ doubt' = TRUE
  <1>1. PageType'
    <2>1. <<>> \in Lines
      BY DEF Lines
    <2> QED BY <2>1 DEF Load, TypeOK, PageType
  <1>2. req' \in [Requests -> Changes]
    BY DEF Load, TypeOK, Changes
  <1>3. get' \in Gets
    <2>1. NoGet \in Gets /\ \A b \in BOOLEAN : [NoGet EXCEPT !.pc = "sent", !.alone = b] \in Gets
      BY SentGetType
    <2>2. PICK b \in BOOLEAN : b = (\A r \in Requests : At(r, "idle"))
      OBVIOUS
    <2>3. get' = NoGet \/ get' = [NoGet EXCEPT !.pc = "sent", !.alone = b]
      BY <2>2, Zenon DEF Load
    <2> QED BY <2>1, <2>3
  <1> QED BY <1>1, <1>2, <1>3 DEF Load

LEMMA SessionTyped ==
  ASSUME TypeOK, Login \/ Logout \/ LoadAfterLogout \/ Reload
  PROVE  Typed
  <1> USE CustomerCartAssumption
  <1>0. <<>> \in Lines
    BY DEF Lines
  <1>1. CASE Login
    <2>1. PageType' /\ get' \in Gets
      <3>1. CASE cache # None
        <4>1. FromServer(cache) \in Lines
          BY <3>1, FromServerLines DEF TypeOK
        <4> QED BY <1>0, <1>1, <3>1, <4>1 DEF Login, TypeOK, PageType
      <3>2. CASE cache = None
        <4>1. Quiet \in BOOLEAN
          BY DEF Quiet
        <4>2. [NoGet EXCEPT !.pc = "sent", !.alone = Quiet] \in Gets
          BY <4>1, SentGetType, Zenon
        <4>3. get' \in Gets /\ UNCHANGED <<shown, before>>
          <5>1. /\ get' = IF get.pc # "none" THEN get ELSE [NoGet EXCEPT !.pc = "sent", !.alone = Quiet]
                /\ UNCHANGED <<shown, before>>
            BY <1>1, <3>2 DEF Login
          <5> QED BY <4>2, <5>1 DEF TypeOK
        <4>4. stored' = <<>> /\ timer' = FALSE
          BY <1>1 DEF Login
        <4> QED BY <1>0, <4>3, <4>4 DEF TypeOK, PageType
      <3> QED BY <3>1, <3>2
    <2>2. sessions' \in 0..MaxSessions /\ UNCHANGED <<clicks, faults, req, cache, db, leaving>>
          /\ auth' \in BOOLEAN /\ doubt' \in BOOLEAN
      BY <1>1 DEF Login, Session, TypeOK
    <2> QED BY <2>1, <2>2, TypeParts DEF Typed, FlagType, NetworkType, BoundType
  <1>2. CASE Logout
    <2>1. PageType'
      BY <1>0, <1>2 DEF Logout, TypeOK, PageType
    <2>2. sessions' \in 0..MaxSessions /\ UNCHANGED <<clicks, faults, network, doubt>>
          /\ auth' \in BOOLEAN /\ leaving' \in BOOLEAN
      <3>1. Session /\ auth' = FALSE /\ leaving' = TRUE /\ UNCHANGED <<pending, network, doubt>>
        BY <1>2 DEF Logout
      <3>2. Session /\ doubt' = doubt /\ network' = network
        BY <3>1
      <3>3. sessions' \in 0..MaxSessions /\ UNCHANGED <<clicks, faults>>
        BY <3>2 DEF Session, TypeOK
      <3> QED BY <3>1, <3>2, <3>3
    <2> QED BY <2>1, <2>2, TypeParts DEF Typed, FlagType, NetworkType, BoundType, network
  <1>3. CASE LoadAfterLogout
    <2>1. PageType' /\ req' \in [Requests -> Changes] /\ get' \in Gets /\ cache' = None /\ doubt' = TRUE
      BY <1>3, LoadType DEF LoadAfterLogout
    <2> QED BY <1>3, <2>1, TypeParts
            DEF LoadAfterLogout, Typed, FlagType, NetworkType, BoundType, bounds
  <1>4. CASE Reload
    <2>1. PageType' /\ req' \in [Requests -> Changes] /\ get' \in Gets /\ cache' = None /\ doubt' = TRUE
      BY <1>4, LoadType DEF Reload
    <2>2. sessions' \in 0..MaxSessions /\ UNCHANGED <<clicks, faults>>
      BY <1>4 DEF Reload, Session, TypeOK
    <2> QED BY <1>4, <2>1, <2>2, TypeParts
            DEF Reload, Typed, FlagType, NetworkType, BoundType
  <1> QED BY <1>1, <1>2, <1>3, <1>4

LEMMA TypeStep ==
  ASSUME TypeOK, [Next]_vars
  PROVE  Typed
  <1>1. CASE \E r \in Requests : \/ Serve(r) \/ Handle(r) \/ Lost(r) \/ BreaksOff(r)
                                 \/ \E op \in Ops : Click(r, op)
    BY <1>1, ServedTyped, AnsweredTyped, FailedTyped, BreaksOffTyped, ClickTyped DEF Handle
  <1>2. CASE \E op \in Ops : GuestClick(op)
    BY <1>2, GuestClickTyped
  <1>3. CASE WriteTimer \/ GetRead \/ GetAnswered \/ GetFails \/ CacheExpires
    BY <1>3, GetTyped
  <1>4. CASE Login \/ Logout \/ LoadAfterLogout \/ Reload
    BY <1>4, SessionTyped
  <1>5. CASE UNCHANGED vars
    BY <1>5, TypeParts DEF vars, Typed, PageType, FlagType, NetworkType, BoundType
  <1> QED BY <1>1, <1>2, <1>3, <1>4, <1>5 DEF Next

-----------------------------------------------------------------------------
\* A served, lost or unheard request is awaited as before.
LEMMA ServedAwaited ==
  ASSUME TypeOK, NEW r \in Requests, Serve(r) \/ Unheard(r) \/ Lost(r)
  PROVE  Awaited' = Awaited /\ UNCHANGED <<pending, clicks>>
  <1>1. CASE Unheard(r)
    <2>1. req' = [req EXCEPT ![r] = NoRequest] /\ req[r].deaf
      BY <1>1 DEF Unheard, Ended
    <2> QED BY <1>1, <2>1 DEF Awaited, At, TypeOK, NoRequest, Unheard, bounds
  <1>2. CASE Serve(r) \/ Lost(r)
    <2>1. req[r].pc # "idle"
      BY <1>2 DEF Serve, Read, Save, Answer, Lost, At
    <2>2. /\ \A q \in Requests \ {r} : req'[q] = req[q]
          /\ req'[r].pc # "idle" /\ req'[r].deaf = req[r].deaf /\ req'[r].op = req[r].op
      <3>1. CASE Save(r)
        <4>1. PICK label \in {"saved", "error"} : req' = [req EXCEPT ![r].pc = label]
          BY <3>1, SaveType
        <4> QED BY <4>1 DEF TypeOK, Changes
      <3>2. CASE Read(r) \/ Answer(r) \/ Lost(r)
        BY <3>2 DEF Read, Answer, Lost, TypeOK, Changes
      <3> QED BY <1>2, <3>1, <3>2 DEF Serve
    <2>3. UNCHANGED <<pending, clicks>>
      BY <1>2 DEF Serve, Read, Save, Answer, Lost, Fault, bounds
    <2> QED BY <2>1, <2>2, <2>3 DEF Awaited, At
  <1> QED BY <1>1, <1>2

\* A request whose end the page hears is awaited no more.
LEMMA EndedAwaited ==
  ASSUME TypeOK, NEW r \in Requests, req' = Ended(r)
  PROVE  Awaited' = Awaited \ {r}
  BY DEF Awaited, At, Ended, NoRequest, TypeOK

LEMMA BrokenAwaited ==
  ASSUME TypeOK, NEW r \in Requests, BreaksOff(r)
  PROVE  Awaited' = Awaited \ {r}
  <1>1. /\ req'[r].deaf = TRUE
        /\ \A q \in Requests \ {r} : req'[q] = req[q]
    BY DEF BreaksOff, TypeOK, Changes
  <1> QED BY <1>1 DEF Awaited, At

LEMMA ClickedAwaited ==
  ASSUME TypeOK, NEW r \in Requests, NEW op \in Ops, At(r, "idle"), req' = Sent(r, op)
  PROVE  Awaited' = IF op = "clear" THEN Awaited ELSE Awaited \cup {r}
  <1>1. req'[r].pc = "sent" /\ req'[r].op = op /\ req'[r].deaf = FALSE
    BY DEF Sent, NoRequest
  <1>2. \A q \in Requests \ {r} :
           req'[q].pc = req[q].pc /\ req'[q].op = req[q].op /\ req'[q].deaf = req[q].deaf
    BY DEF Sent, TypeOK, Changes
  <1> QED BY <1>1, <1>2 DEF Awaited, At

\* Every step that sends a change, or lets the page hear of one, moves the count along.
LEMMA CountStep ==
  ASSUME TypeOK, CountInv, [Next]_vars
  PROVE  CountInv'
  <1> USE CustomerCartAssumption
  <1>0. /\ IsFiniteSet(Awaited) /\ Cardinality(Awaited) \in Nat
        /\ pending = Cardinality(Awaited) /\ pending <= clicks /\ clicks \in Nat
    BY FS_CardinalityType DEF CountInv, TypeOK
  <1>1. ASSUME Awaited' = Awaited, pending' = pending, clicks' \in {clicks, clicks + 1}
        PROVE  CountInv'
    BY <1>0, <1>1 DEF CountInv
  <1>2. ASSUME NEW r \in Requests, Answered(r) \/ Failed(r) \/ BreaksOff(r)
        PROVE  CountInv'
    <2>1. Awaited' = Awaited \ {r} /\ UNCHANGED clicks
      BY <1>2, EndedAwaited, BrokenAwaited DEF Answered, Failed, BreaksOff, Fault, bounds
    <2>2. CASE req[r].op = "clear"
      <3>1. Awaited' = Awaited /\ pending' = pending
        BY <1>2, <2>1, <2>2 DEF Awaited, Answered, Failed, BreaksOff, CatchBlock
      <3> QED BY <1>1, <2>1, <3>1
    <2>3. CASE req[r].op # "clear"
      <3>1. r \in Awaited /\ pending' = pending - 1
        BY <1>2, <2>3 DEF Awaited, At, Answered, Failed, BreaksOff, CatchBlock
      <3>2. IsFiniteSet(Awaited \ {r}) /\ Cardinality(Awaited \ {r}) = Cardinality(Awaited) - 1
        BY <1>0, <3>1, FS_RemoveElement
      <3> QED BY <1>0, <2>1, <3>1, <3>2 DEF CountInv
    <2> QED BY <2>2, <2>3
  <1>3. ASSUME NEW r \in Requests, NEW op \in Ops, Click(r, op)
        PROVE  CountInv'
    <2>1. Awaited' = (IF op = "clear" THEN Awaited ELSE Awaited \cup {r}) /\ clicks' = clicks + 1
      BY <1>3, ClickedAwaited DEF Click
    <2>2. CASE op = "clear"
      BY <1>1, <1>3, <2>1, <2>2 DEF Click
    <2>3. CASE op # "clear"
      <3>1. r \notin Awaited /\ pending' = pending + 1
        BY <1>3, <2>3 DEF Awaited, Click
      <3>2. IsFiniteSet(Awaited \cup {r}) /\ Cardinality(Awaited \cup {r}) = Cardinality(Awaited) + 1
        BY <1>0, <3>1, FS_AddElement
      <3> QED BY <1>0, <2>1, <2>3, <3>1, <3>2 DEF CountInv
    <2> QED BY <2>2, <2>3
  <1>4. ASSUME NEW r \in Requests, Serve(r) \/ Unheard(r) \/ Lost(r)
        PROVE  CountInv'
    BY <1>1, <1>4, ServedAwaited
  <1>5. CASE LoadAfterLogout \/ Reload
    <2>1. Load /\ clicks' = clicks
      BY <1>5 DEF LoadAfterLogout, Reload, Session, bounds
    <2>2. Awaited' = {} /\ pending' = 0
      BY <2>1 DEF Load, Awaited, At, TypeOK, Changes
    <2> QED BY <1>0, <2>1, <2>2, FS_EmptySet DEF CountInv
  <1>6. CASE Login \/ Logout
    <2>1. UNCHANGED <<req, pending, clicks>>
      BY <1>6 DEF Login, Logout, Session, network
    <2> QED BY <1>1, <2>1 DEF Awaited, At
  <1>7. CASE \E op \in Ops : GuestClick(op)
    <2>1. UNCHANGED <<req, pending>> /\ clicks' = clicks + 1
      BY <1>7 DEF GuestClick, network
    <2> QED BY <1>1, <2>1 DEF Awaited, At
  <1>8. CASE WriteTimer \/ GetRead \/ GetAnswered \/ GetFails \/ CacheExpires \/ UNCHANGED vars
    <2>1. UNCHANGED <<req, pending, clicks>>
      BY <1>8 DEF WriteTimer, GetRead, GetAnswered, GetFails, CacheExpires, Fault, network, bounds, vars
    <2> QED BY <1>1, <2>1 DEF Awaited, At
  <1> QED BY <1>2, <1>3, <1>4, <1>5, <1>6, <1>7, <1>8 DEF Next, Handle

\* The cart's state is of its type, and the answers the page counts are the changes it
\* has sent since it was loaded and not heard of.
THEOREM CartTypeCorrect == Spec => [](TypeOK /\ CountInv)
  <1>1. Init => TypeOK /\ CountInv
    <2> SUFFICES ASSUME Init PROVE TypeOK /\ CountInv
      OBVIOUS
    <2>1. NoRequest \in Changes /\ NoGet \in Gets /\ <<>> \in Lines /\ <<>> \in ServerLines
      BY DEF NoRequest, Changes, Places, Ops, NoGet, Gets, Lines, ServerLines
    <2>2. TypeOK
      <3>1. req \in [Requests -> Changes] /\ get \in Gets /\ cache \in ServerLines \cup {None}
        BY <2>1 DEF Init
      <3>2. db \in [lines : ServerLines, ver : Nat]
        BY <2>1 DEF Init
      <3>3. shown \in Lines /\ stored \in Lines /\ before \in Lines
        BY <2>1 DEF Init
      <3>4. pending \in 0..MaxClicks /\ clicks \in 0..MaxClicks /\ faults \in 0..MaxFaults
            /\ sessions \in 0..MaxSessions
        BY CustomerCartAssumption DEF Init
      <3>5. auth \in BOOLEAN /\ leaving \in BOOLEAN /\ timer \in BOOLEAN /\ doubt \in BOOLEAN
        BY DEF Init
      <3> QED BY <3>1, <3>2, <3>3, <3>4, <3>5 DEF TypeOK
    <2>3. Awaited = {}
      BY DEF Init, Awaited, At, NoRequest
    <2> QED BY <2>2, <2>3, FS_EmptySet DEF Init, CountInv
  <1>2. TypeOK /\ CountInv /\ [Next]_vars => (TypeOK /\ CountInv)'
    <2> SUFFICES ASSUME TypeOK, CountInv, [Next]_vars PROVE TypeOK' /\ CountInv'
      OBVIOUS
    <2>1. Typed /\ CountInv'
      BY TypeStep, CountStep
    <2>2. pending' \in 0..MaxClicks
      <3>1. IsFiniteSet(Awaited') /\ pending' = Cardinality(Awaited') /\ pending' <= clicks'
        BY <2>1 DEF CountInv
      <3>2. Cardinality(Awaited') \in Nat
        BY <3>1, FS_CardinalityType
      <3> QED BY <2>1, <3>1, <3>2, CustomerCartAssumption DEF Typed, BoundType
    <2> QED BY <2>1, <2>2 DEF Typed, TypeOK, PageType, FlagType, NetworkType, BoundType
  <1> QED BY <1>1, <1>2, PTL DEF Spec

-----------------------------------------------------------------------------
(* Level two: a change that had the network for itself, a GET that was     *)
(* sent with no change under way, and what the page shows in peace.        *)

Alone(r) == ~At(r, "idle") /\ req[r].alone

AloneInv == \A r \in Requests : Alone(r) =>
    /\ ~req[r].deaf /\ (auth \/ leaving)
    /\ \A q \in Requests \ {r} : At(q, "idle")
    /\ get.pc = "none" /\ cache = None
    /\ req[r].pc \in {"read", "answered"} => req[r].cart = db.lines
    /\ At(r, "read") => req[r].ver = db.ver
    /\ req[r].pc \in {"saved", "answered"} /\ req[r].op = "clear" => db.lines = <<>>

Resting == \A r \in Requests : req[r].pc \in {"idle", "error"}

GetInv == get.pc # "none" /\ get.alone =>
    /\ Resting
    /\ get.pc = "answered" => get.cart = db.lines

\* Either one change is on its way alone, or all that is not yet handled is an error and a
\* GET that will read the cart as it is.
PeaceInv == auth /\ ~doubt =>
    \/ \E r \in Requests : Alone(r)
    \/ /\ Resting
       /\ get.pc # "none" => get.alone
       /\ cache \in {None, db.lines}
       /\ get.pc = "none" => shown = FromServer(db.lines)

\* What a step of the server or of the network does to the change it works on.
LEMMA ServedShape ==
  ASSUME TypeOK, NEW r \in Requests, Serve(r) \/ Lost(r)
  PROVE  /\ req[r].pc \in {"sent", "read", "saved", "answered"}
         /\ \A q \in Requests \ {r} : req'[q] = req[q]
         /\ req'[r].pc # "idle" /\ req'[r].op = req[r].op
         /\ req'[r].deaf = req[r].deaf /\ req'[r].alone = req[r].alone
         /\ UNCHANGED <<auth, leaving, get, cache, doubt>>
  <1>1. CASE Save(r)
    <2>1. PICK label \in {"saved", "error"} : req' = [req EXCEPT ![r].pc = label]
      BY <1>1, SaveType
    <2> QED BY <1>1, <2>1 DEF TypeOK, Changes, Save, At
  <1>2. CASE Read(r) \/ Answer(r) \/ Lost(r)
    BY <1>2 DEF Read, Answer, Lost, At, TypeOK, Changes
  <1> QED BY <1>1, <1>2 DEF Serve

\* Alone, a clear empties the cart.
LEMMA AloneSaves ==
  ASSUME TypeOK, AloneInv, NEW r \in Requests, Alone(r), Save(r)
  PROVE  /\ req'[r].pc \in {"saved", "error"}
         /\ req'[r].pc = "saved" /\ req[r].op = "clear" => db'.lines = <<>>
  <1>1. /\ req[r].cart = db.lines /\ req[r].ver = db.ver /\ db.lines \in ServerLines
        /\ req \in [Requests -> Changes]
    BY DEF AloneInv, Save, At, TypeOK
  <1>2. PICK label \in {"saved", "error"} : req' = [req EXCEPT ![r].pc = label]
    BY SaveType
  <1>3. ASSUME req[r].op = "clear" PROVE db'.lines = <<>>
    <2>1. Saves(r, IF db.lines = <<>> THEN Nothing ELSE Empty)
      BY <1>1, <1>3 DEF Save
    <2>2. CASE db.lines = <<>>
      <3>1. db'.lines = Nothing.lines
        BY <1>1, <2>1, <2>2 DEF Saves, Nothing
      <3> QED BY <2>2, <3>1 DEF Nothing
    <2>3. CASE db.lines # <<>>
      BY <1>1, <2>1, <2>3 DEF Saves, Empty
    <2> QED BY <2>2, <2>3
  <1> QED BY <1>1, <1>2, <1>3 DEF Changes

LEMMA ServedAlone ==
  ASSUME TypeOK, AloneInv, NEW r \in Requests, Serve(r) \/ Lost(r)
  PROVE  AloneInv'
  <1> SUFFICES ASSUME NEW q \in Requests, Alone(q)'
               PROVE  /\ q = r /\ ~req'[q].deaf /\ (auth \/ leaving)'
                      /\ \A p \in Requests \ {q} : At(p, "idle")'
                      /\ get'.pc = "none" /\ cache' = None
                      /\ req'[q].pc \in {"read", "answered"} => req'[q].cart = db'.lines
                      /\ At(q, "read")' => req'[q].ver = db'.ver
                      /\ req'[q].pc \in {"saved", "answered"} /\ req'[q].op = "clear" => db'.lines = <<>>
    BY DEF AloneInv
  <1>1. Alone(q) /\ q = r
    BY ServedShape DEF Alone, AloneInv, At
  <1>2. /\ ~req'[r].deaf /\ (auth' \/ leaving') /\ get'.pc = "none" /\ cache' = None
        /\ \A p \in Requests \ {r} : req'[p].pc = "idle"
    BY <1>1, ServedShape DEF AloneInv, At
  <1>3. req[r].op = req'[r].op
    BY ServedShape
  <1>4. CASE Read(r)
    <2>1. req' = [req EXCEPT ![r].pc = "read", ![r].cart = db.lines, ![r].ver = db.ver] /\ db' = db
      BY <1>4 DEF Read
    <2>2. req'[r].pc = "read" /\ req'[r].cart = db.lines /\ req'[r].ver = db.ver
      BY <2>1 DEF TypeOK, Changes
    <2> QED BY <1>1, <1>2, <2>1, <2>2 DEF At
  <1>5. CASE Save(r)
    BY <1>1, <1>2, <1>3, <1>5, AloneSaves DEF At
  <1>6. CASE Answer(r)
    <2>1. req' = [req EXCEPT ![r].pc = "answered", ![r].cart = db.lines] /\ db' = db /\ At(r, "saved")
      BY <1>6 DEF Answer
    <2>2. req'[r].pc = "answered" /\ req'[r].cart = db.lines
      BY <2>1 DEF TypeOK, Changes
    <2>3. req[r].op = "clear" => db.lines = <<>>
      BY <1>1, <2>1 DEF AloneInv, At
    <2> QED BY <1>1, <1>2, <1>3, <2>1, <2>2, <2>3 DEF At
  <1>7. CASE Lost(r)
    <2>1. req'[r].pc = "error"
      BY <1>7 DEF Lost, TypeOK, Changes
    <2> QED BY <1>1, <1>2, <2>1 DEF At
  <1> QED BY <1>4, <1>5, <1>6, <1>7 DEF Serve

\* A change stays alone until it is handled, and nobody else writes meanwhile.
LEMMA AloneStep ==
  ASSUME TypeOK, AloneInv, [Next]_vars
  PROVE  AloneInv'
  <1>1. ASSUME \A r \in Requests : ~Alone(r)' PROVE AloneInv'
    BY <1>1 DEF AloneInv
  <1>2. ASSUME req' = req, get' = get, cache' = cache, db' = db, (auth \/ leaving) => (auth' \/ leaving')
        PROVE  AloneInv'
    BY <1>2 DEF AloneInv, Alone, At, TypeOK
  <1>3. ASSUME NEW r \in Requests, Serve(r) \/ Lost(r) PROVE AloneInv'
    BY <1>3, ServedAlone
  <1>4. ASSUME NEW r \in Requests, Handle(r) PROVE AloneInv'
    <2>1. req' = Ended(r) /\ ~At(r, "idle")
      BY <1>4 DEF Handle, Answered, Failed, Unheard, At
    <2>2. \A q \in Requests : Alone(q)' => Alone(q) /\ q # r
      BY <2>1 DEF Ended, Alone, At, TypeOK, NoRequest
    <2> QED BY <1>1, <2>1, <2>2 DEF AloneInv
  <1>5. ASSUME NEW r \in Requests, NEW op \in Ops, Click(r, op) PROVE AloneInv'
    <2>1. /\ auth' /\ cache' = None /\ get' = [get EXCEPT !.alone = FALSE] /\ req' = Sent(r, op)
      BY <1>5 DEF Click
    <2>2. /\ req'[r].pc = "sent" /\ req'[r].alone = Quiet /\ req'[r].deaf = FALSE
          /\ \A q \in Requests \ {r} : req'[q].pc = req[q].pc /\ ~req'[q].alone
      BY <2>1 DEF Sent, NoRequest, TypeOK, Changes
    <2>3. get'.pc = get.pc
      BY <2>1 DEF TypeOK, Gets
    <2> QED BY <2>1, <2>2, <2>3 DEF AloneInv, Alone, At, Quiet
  <1>6. CASE Login \/ \E op \in Ops : GuestClick(op)
    <2>1. ~auth /\ ~leaving /\ req' = req
      BY <1>6 DEF Login, GuestClick, network
    <2> QED BY <1>1, <2>1 DEF AloneInv, Alone, At
  <1>7. CASE GetRead \/ GetAnswered \/ GetFails \/ CacheExpires
    <2>1. req' = req /\ (get.pc # "none" \/ cache # None)
      BY <1>7 DEF GetRead, GetAnswered, GetFails, CacheExpires
    <2> QED BY <1>1, <2>1 DEF AloneInv, Alone, At
  <1>8. CASE LoadAfterLogout \/ Reload
    <2>1. \A r \in Requests : ~req'[r].alone
      <3>1. req' = [r \in Requests |-> [req[r] EXCEPT !.deaf = ~At(r, "idle"), !.alone = FALSE]]
        BY <1>8 DEF LoadAfterLogout, Reload, Load
      <3> QED BY <3>1 DEF TypeOK, Changes
    <2> QED BY <1>1, <2>1 DEF Alone
  <1>9. CASE Logout \/ WriteTimer \/ UNCHANGED vars
    <2>1. CASE Logout
      <3>1. network' = network /\ leaving' = TRUE
        BY <2>1 DEF Logout
      <3>2. req' = req /\ get' = get /\ cache' = cache /\ db' = db
        BY <3>1 DEF network
      <3> QED BY <1>2, <3>1, <3>2
    <2>2. CASE WriteTimer \/ UNCHANGED vars
      BY <1>2, <2>2 DEF WriteTimer, network, vars
    <2> QED BY <1>9, <2>1, <2>2
  <1>10. ASSUME NEW r \in Requests, BreaksOff(r) PROVE AloneInv'
    <2>1. /\ req'[r].alone = FALSE /\ ~At(r, "idle")
          /\ \A q \in Requests \ {r} : req'[q] = req[q]
      BY <1>10 DEF BreaksOff, At, TypeOK, Changes
    <2>2. \A q \in Requests \ {r} : ~Alone(q)
      BY <2>1 DEF AloneInv
    <2>3. \A q \in Requests : ~Alone(q)'
      BY <2>1, <2>2 DEF Alone, At
    <2> QED BY <1>1, <2>3
  <1> QED BY <1>3, <1>4, <1>5, <1>6, <1>7, <1>8, <1>9, <1>10 DEF Next

\* The GET that FetchCart sends knows whether a change is under way.
LEMMA FetchedGet ==
  ASSUME TypeOK, FetchCart, Resting
  PROVE  /\ get' = get \/ (get.pc = "none" /\ get'.pc = "sent" /\ get'.alone = TRUE)
         /\ cache = None => UNCHANGED page /\ get'.pc # "none"
         /\ cache # None => shown' = FromServer(cache) /\ get' = get
  <1>1. CASE cache # None
    BY <1>1 DEF FetchCart, SetCart
  <1>2. CASE cache = None /\ get.pc # "none"
    BY <1>2 DEF FetchCart
  <1>3. CASE cache = None /\ get.pc = "none"
    <2>1. UNCHANGED page /\ get' = [NoGet EXCEPT !.pc = "sent", !.alone = Resting]
      BY <1>3 DEF FetchCart, Resting
    <2>2. get'.pc = "sent" /\ get'.alone = Resting
      BY <2>1, Zenon DEF NoGet
    <2> QED BY <1>3, <2>1, <2>2
  <1> QED BY <1>1, <1>2, <1>3

\* To end a change wakes no other.
LEMMA EndedRests ==
  ASSUME TypeOK, Resting, NEW r \in Requests, req' = Ended(r)
  PROVE  Resting'
  BY DEF TypeOK, Resting, Ended, NoRequest

\* Nobody writes between a GET that was sent alone and its answer.
LEMMA GetStep ==
  ASSUME TypeOK, GetInv, [Next]_vars
  PROVE  GetInv'
  <1>1. ASSUME get' = get, db' = db, Resting => Resting' PROVE GetInv'
    BY <1>1 DEF GetInv
  <1>2. ASSUME NEW r \in Requests, Serve(r) \/ Lost(r) PROVE GetInv'
    <2>1. ~Resting /\ get' = get
      BY <1>2, ServedShape DEF Resting
    <2> QED BY <2>1 DEF GetInv
  <1>3. ASSUME NEW r \in Requests, Handle(r) PROVE GetInv'
    <2>1. req' = Ended(r) /\ db' = db
      BY <1>3 DEF Handle, Answered, Failed, Unheard
    <2>2. Resting => Resting'
      BY <2>1, EndedRests
    <2>3. CASE get' = get
      BY <1>1, <2>1, <2>2, <2>3
    <2>4. CASE get' # get
      <3>1. At(r, "error") /\ FetchCart
        BY <1>3, <2>4 DEF Handle, Answered, Failed, CatchBlock, Unheard
      <3>2. /\ get.pc = "none" /\ cache = None
            /\ get' = [NoGet EXCEPT !.pc = "sent", !.alone = Resting]
        BY <2>4, <3>1 DEF FetchCart, Resting
      <3>3. get'.pc = "sent" /\ get'.alone = Resting
        BY <3>2, Zenon DEF NoGet
      <3> QED BY <2>2, <3>3 DEF GetInv
    <2> QED BY <2>3, <2>4
  <1>4. ASSUME NEW r \in Requests, NEW op \in Ops, Click(r, op) PROVE GetInv'
    <2>1. get'.alone = FALSE
      BY <1>4 DEF Click, TypeOK, Gets
    <2> QED BY <2>1 DEF GetInv
  <1>5. CASE GetRead
    <2>1. get' = [get EXCEPT !.pc = "answered", !.cart = db.lines] /\ db' = db /\ req' = req
      BY <1>5 DEF GetRead
    <2>2. get'.cart = db.lines /\ get'.alone = get.alone /\ get.pc # "none"
      BY <1>5, <2>1 DEF TypeOK, Gets, GetRead
    <2> QED BY <2>1, <2>2 DEF GetInv, Resting
  <1>6. CASE GetAnswered \/ GetFails
    BY <1>6 DEF GetAnswered, GetFails, GetInv, NoGet
  <1>7. CASE Login
    <2>1. req' = req /\ db' = db
      BY <1>7 DEF Login
    <2>2. CASE get' = get
      BY <1>1, <2>1, <2>2 DEF Resting
    <2>3. CASE get' # get
      <3>1. get' = [NoGet EXCEPT !.pc = "sent", !.alone = Quiet]
        BY <1>7, <2>3 DEF Login
      <3>2. get'.pc = "sent" /\ get'.alone = Quiet
        BY <3>1, Zenon DEF NoGet
      <3> QED BY <2>1, <3>2 DEF GetInv, Quiet, Resting
    <2> QED BY <2>2, <2>3
  <1>8. CASE LoadAfterLogout \/ Reload
    <2>1. Load /\ db' = db
      BY <1>8 DEF LoadAfterLogout, Reload
    <2>2. \A r \in Requests : req'[r].pc = req[r].pc
      BY <2>1 DEF Load, TypeOK, Changes
    <2>3. CASE auth
      <3>1. PICK b \in BOOLEAN : b = (\A r \in Requests : At(r, "idle"))
        OBVIOUS
      <3>2. get' = [NoGet EXCEPT !.pc = "sent", !.alone = b]
        BY <2>1, <2>3, <3>1, Zenon DEF Load
      <3>3. get'.pc = "sent" /\ get'.alone = b
        BY <3>2, Zenon DEF NoGet
      <3> QED BY <2>2, <3>1, <3>3 DEF GetInv, Resting, At
    <2>4. CASE ~auth
      <3>1. get' = NoGet
        BY <2>1, <2>4 DEF Load
      <3> QED BY <3>1 DEF GetInv, NoGet
    <2> QED BY <2>3, <2>4
  <1>9. CASE Logout \/ WriteTimer \/ CacheExpires \/ (\E op \in Ops : GuestClick(op)) \/ UNCHANGED vars
    <2>1. CASE Logout
      <3>1. network' = network
        BY <2>1 DEF Logout
      <3> QED BY <1>1, <3>1 DEF network, Resting
    <2>2. CASE WriteTimer \/ (\E op \in Ops : GuestClick(op))
      <3>1. network' = network
        BY <2>2 DEF WriteTimer, GuestClick
      <3> QED BY <1>1, <3>1 DEF network, Resting
    <2>3. CASE CacheExpires \/ UNCHANGED vars
      BY <1>1, <2>3 DEF CacheExpires, vars, Resting
    <2> QED BY <1>9, <2>1, <2>2, <2>3
  <1>10. ASSUME NEW r \in Requests, BreaksOff(r) PROVE GetInv'
    <2>1. ~Resting
      BY <1>10 DEF BreaksOff, Resting
    <2>2. CASE get' = get
      BY <2>1, <2>2 DEF GetInv
    <2>3. CASE get' # get
      <3>1. get' = [NoGet EXCEPT !.pc = "sent", !.alone = Resting]
        BY <1>10, <2>3 DEF BreaksOff, CatchBlock, FetchCart, Resting
      <3>2. get'.alone = Resting
        BY <3>1, Zenon DEF NoGet
      <3> QED BY <2>1, <3>2 DEF GetInv
    <2> QED BY <2>2, <2>3
  <1> QED BY <1>2, <1>3, <1>4, <1>5, <1>6, <1>7, <1>8, <1>9, <1>10 DEF Next

\* The count of a change that is alone is one.
LEMMA AloneCount ==
  ASSUME TypeOK, CountInv, AloneInv, NEW r \in Requests, Alone(r), req[r].op # "clear"
  PROVE  pending = 1
  <1>1. Awaited = {r}
    BY DEF Awaited, AloneInv, Alone, At
  <1> QED BY <1>1, FS_Singleton DEF CountInv

\* An answer taken over in peace shows the cart that was saved last.
LEMMA PeaceAnswered ==
  ASSUME TypeOK, CountInv, AloneInv, PeaceInv, NEW r \in Requests, Answered(r)
  PROVE  PeaceInv'
  <1> SUFFICES ASSUME auth', ~doubt'
               PROVE  /\ Resting' /\ get'.pc = "none"
                      /\ cache' = None /\ shown' = FromServer(db'.lines)
    BY DEF PeaceInv
  <1>1. auth /\ (req[r].alone \/ ~doubt) /\ req[r].pc = "answered"
    BY DEF Answered, At
  <1>2. Alone(r)
    BY <1>1 DEF PeaceInv, AloneInv, Alone, Resting, At
  <1>3. /\ \A q \in Requests \ {r} : At(q, "idle")
        /\ get.pc = "none" /\ cache = None /\ req[r].cart = db.lines
        /\ req[r].op = "clear" => db.lines = <<>>
    BY <1>1, <1>2 DEF AloneInv
  <1>4. Resting'
    BY <1>3 DEF Answered, Ended, Resting, At, NoRequest, TypeOK
  <1>5. shown' = FromServer(db.lines)
    <2>1. CASE req[r].op = "clear"
      BY <1>3, <2>1, FromServerEmpty DEF Answered, SetCart
    <2>2. CASE req[r].op # "clear"
      BY <1>2, <1>3, <2>2, AloneCount DEF Answered, SetCart
    <2> QED BY <2>1, <2>2
  <1> QED BY <1>3, <1>4, <1>5 DEF Answered

\* A failed change is followed by a GET that will read the cart as it is.
LEMMA PeaceFailed ==
  ASSUME TypeOK, CountInv, AloneInv, PeaceInv, NEW r \in Requests, Failed(r)
  PROVE  PeaceInv'
  <1> SUFFICES ASSUME auth', ~doubt'
               PROVE  /\ Resting' /\ (get'.pc # "none" => get'.alone)
                      /\ cache' \in {None, db'.lines}
                      /\ get'.pc = "none" => shown' = FromServer(db'.lines)
    BY DEF PeaceInv
  <1>1. /\ auth /\ ~doubt /\ req[r].pc = "error" /\ req[r].op # "clear"
        /\ req' = Ended(r) /\ cache' = cache /\ db' = db
    BY DEF Failed, At
  <1>2. CASE Alone(r)
    <2>1. Resting /\ get.pc = "none" /\ cache = None
      BY <1>1, <1>2 DEF AloneInv, Resting, At
    <2>2. FetchCart
      BY <1>1, <1>2, AloneCount DEF Failed, CatchBlock
    <2>3. get'.pc # "none" /\ get'.alone
      BY <2>1, <2>2, FetchedGet
    <2> QED BY <1>1, <2>1, <2>3, EndedRests
  <1>3. CASE ~Alone(r)
    <2>1. ~\E q \in Requests : Alone(q)
      BY <1>1, <1>3 DEF AloneInv, At
    <2>2. /\ Resting /\ (get.pc # "none" => get.alone) /\ cache \in {None, db.lines}
          /\ get.pc = "none" => shown = FromServer(db.lines)
      BY <1>1, <2>1 DEF PeaceInv
    <2>3. CASE FetchCart
      BY <1>1, <2>2, <2>3, FetchedGet, EndedRests
    <2>4. CASE UNCHANGED <<page, get>>
      BY <1>1, <2>2, <2>4, EndedRests DEF page
    <2> QED BY <2>3, <2>4 DEF Failed, CatchBlock
  <1> QED BY <1>2, <1>3

\* What makes the page differ from the server raises the doubt or is still on its way.
LEMMA PeaceStep ==
  ASSUME TypeOK, CountInv, AloneInv, GetInv, PeaceInv, [Next]_vars
  PROVE  PeaceInv'
  <1>1. ASSUME auth' = auth, doubt' = doubt, shown' = shown, req' = req, get' = get,
               cache' \in {cache, None}, db' = db
        PROVE  PeaceInv'
    BY <1>1 DEF PeaceInv, Alone, Resting, At
  <1>2. ASSUME NEW r \in Requests, Serve(r) \/ Lost(r) PROVE PeaceInv'
    <2>1. ~Resting /\ (Alone(r) => Alone(r)') /\ auth' = auth /\ doubt' = doubt
          /\ \A q \in Requests \ {r} : Alone(q) => ~AloneInv
      BY <1>2, ServedShape DEF Resting, Alone, AloneInv, At
    <2> QED BY <2>1 DEF PeaceInv
  <1>3. ASSUME NEW r \in Requests, Unheard(r) PROVE PeaceInv'
    <2>1. /\ req' = Ended(r) /\ req[r].deaf /\ req[r].pc # "idle"
          /\ UNCHANGED <<auth, doubt, shown, get, cache, db>>
      BY <1>3 DEF Unheard, page
    <2>2. ~\E q \in Requests : Alone(q)
      BY <2>1 DEF AloneInv, Alone, At
    <2> QED BY <2>1, <2>2, EndedRests DEF PeaceInv
  <1>4. ASSUME NEW r \in Requests, Answered(r) \/ Failed(r) PROVE PeaceInv'
    BY <1>4, PeaceAnswered, PeaceFailed
  <1>5. ASSUME NEW r \in Requests, NEW op \in Ops, Click(r, op) PROVE PeaceInv'
    <2>1. ~doubt' => Quiet
      BY <1>5 DEF Click
    <2>2. Quiet => Alone(r)'
      <3>1. req'[r].pc = "sent" /\ req'[r].alone = Quiet
        BY <1>5 DEF Click, Sent, NoRequest
      <3> QED BY <3>1 DEF Alone, At
    <2> QED BY <2>1, <2>2 DEF PeaceInv
  <1>6. CASE GetRead
    <2>1. /\ get' = [get EXCEPT !.pc = "answered", !.cart = db.lines]
          /\ UNCHANGED <<auth, doubt, shown, req, cache, db>>
      BY <1>6 DEF GetRead, page
    <2>2. get'.pc = "answered" /\ get'.alone = get.alone /\ get.pc # "none"
      BY <1>6, <2>1 DEF GetRead, TypeOK, Gets
    <2> QED BY <2>1, <2>2 DEF PeaceInv, AloneInv, Resting
  <1>7. CASE GetAnswered
    <2> SUFFICES ASSUME auth', ~doubt'
                 PROVE  /\ Resting' /\ get'.pc = "none" /\ cache' = db'.lines
                        /\ shown' = FromServer(db'.lines)
      BY DEF PeaceInv
    <2>1. /\ auth /\ (get.alone \/ ~doubt) /\ get.pc = "answered"
          /\ cache' = get.cart /\ shown' = FromServer(get.cart) /\ get' = NoGet
          /\ req' = req /\ db' = db
      BY <1>7 DEF GetAnswered, SetCart
    <2>2. get.alone
      BY <2>1 DEF PeaceInv, AloneInv
    <2>3. Resting /\ get.cart = db.lines
      BY <2>1, <2>2 DEF GetInv
    <2> QED BY <2>1, <2>3 DEF Resting, NoGet
  <1>8. CASE GetFails \/ Login \/ Logout \/ LoadAfterLogout \/ Reload
    <2>1. ~auth' \/ doubt'
      BY <1>8 DEF GetFails, Login, Logout, LoadAfterLogout, Reload, Load
    <2> QED BY <2>1 DEF PeaceInv
  <1>9. CASE \E op \in Ops : GuestClick(op)
    BY <1>9 DEF GuestClick, PeaceInv
  <1>10. CASE WriteTimer
    <2>1. network' = network /\ auth' = auth /\ doubt' = doubt /\ shown' = shown
      BY <1>10 DEF WriteTimer
    <2> QED BY <1>1, <2>1 DEF network
  <1>11. CASE CacheExpires \/ UNCHANGED vars
    BY <1>1, <1>11 DEF CacheExpires, page, vars
  <1>12. ASSUME NEW r \in Requests, BreaksOff(r) PROVE PeaceInv'
    BY <1>12 DEF BreaksOff, PeaceInv
  <1> QED BY <1>2, <1>3, <1>4, <1>5, <1>6, <1>7, <1>8, <1>9, <1>10, <1>11, <1>12 DEF Next, Handle

\* The page shows the server's cart when nothing is on its way and since the last overlap,
\* failed fetch or broken call one call went through in peace: an optimistic change is not
\* left standing, whatever the server refuses and whether a request or its answer is lost.
THEOREM ShownIsRight == Spec => []ShownIsTheServersCart
  <1>1. Init => AloneInv /\ GetInv /\ PeaceInv
    <2> SUFFICES ASSUME Init PROVE AloneInv /\ GetInv /\ PeaceInv
      OBVIOUS
    <2>1. (\A r \in Requests : req[r].pc = "idle") /\ get.pc = "none" /\ ~auth
      BY DEF Init, NoRequest, NoGet
    <2> QED BY <2>1 DEF AloneInv, Alone, At, GetInv, PeaceInv
  <1>2. TypeOK /\ CountInv /\ AloneInv /\ GetInv /\ PeaceInv /\ [Next]_vars
          => (AloneInv /\ GetInv /\ PeaceInv)'
    BY AloneStep, GetStep, PeaceStep
  <1>3. AloneInv /\ PeaceInv => ShownIsTheServersCart
    BY DEF PeaceInv, ShownIsTheServersCart, Quiet, Alone, At
  <1> QED BY <1>1, <1>2, <1>3, CartTypeCorrect, PTL DEF Spec

\* Whatever a guest clicks and whenever the tab is closed, the stored cart is the one shown
\* or the one before it; after logout it is the account's, until the page is gone.
THEOREM GuestKeepsTheCart == Spec => []GuestLosesOneChange
  <1>1. Init => GuestLosesOneChange
    BY DEF Init, GuestLosesOneChange
  <1>2. GuestLosesOneChange /\ [Next]_vars => GuestLosesOneChange'
    <2> SUFFICES ASSUME GuestLosesOneChange, [Next]_vars, ~auth'
                 PROVE  stored' \in {shown', before'}
      BY DEF GuestLosesOneChange
    <2>1. ASSUME UNCHANGED <<auth, shown, stored, before>> PROVE stored' \in {shown', before'}
      BY <2>1 DEF GuestLosesOneChange
    <2>2. ASSUME NEW new, SetCart(new), ~auth PROVE stored' \in {shown', before'}
      BY <2>2 DEF SetCart
    <2>3. ASSUME NEW r \in Requests, Serve(r) \/ Lost(r) \/ Unheard(r)
          PROVE  stored' \in {shown', before'}
      BY <2>1, <2>3 DEF Serve, Read, Save, Answer, Lost, Unheard, page
    <2>4. ASSUME NEW r \in Requests, Answered(r) \/ Failed(r) \/ BreaksOff(r)
          PROVE  stored' \in {shown', before'}
      <3>1. ~auth /\ auth' = auth
        BY <2>4 DEF Answered, Failed, BreaksOff
      <3>2. SetCart(<<>>) \/ SetCart(FromServer(req[r].cart)) \/ UNCHANGED page
        BY <2>4, <3>1 DEF Answered, Failed, BreaksOff, CatchBlock
      <3> QED BY <2>1, <2>2, <3>1, <3>2 DEF page
    <2>5. ASSUME NEW r \in Requests, NEW op \in Ops, Click(r, op)
          PROVE  stored' \in {shown', before'}
      BY <2>5 DEF Click
    <2>6. ASSUME NEW op \in Ops, GuestClick(op) PROVE stored' \in {shown', before'}
      BY <2>2, <2>6 DEF GuestClick
    <2>7. CASE GetAnswered
      BY <2>2, <2>7 DEF GetAnswered
    <2>8. CASE GetRead \/ GetFails \/ CacheExpires \/ UNCHANGED vars
      BY <2>1, <2>8 DEF GetRead, GetFails, CacheExpires, page, vars
    <2>9. CASE WriteTimer \/ Logout
      BY <2>9 DEF WriteTimer, Logout
    <2>10. CASE Login
      BY <2>10 DEF Login
    <2>11. CASE LoadAfterLogout \/ Reload
      <3>1. auth' = auth /\ shown' = stored /\ (auth \/ stored' = stored)
        BY <2>11 DEF LoadAfterLogout, Reload, Load
      <3> QED BY <3>1
    <2> QED BY <2>3, <2>4, <2>5, <2>6, <2>7, <2>8, <2>9, <2>10, <2>11 DEF Next, Handle
  <1> QED BY <1>1, <1>2, PTL DEF Spec
===============================================================================
