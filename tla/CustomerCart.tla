------------------------------ MODULE CustomerCart ------------------------------
(***************************************************************************)
(* The customer's cart: what the shop page shows, what the browser stores  *)
(* for a guest, and what the server keeps for an account.  The page shows  *)
(* a click at once, sends it, and takes over the server's answer when it   *)
(* waits for no other.                                                     *)
(*                                                                         *)
(* One tab, one account, one product.  A cart is the sequence of the       *)
(* product's lines, for two concurrent additions may leave two of them.    *)
(* An effect of React runs with the render that caused it.                 *)
(*                                                                         *)
(* Operators named <definition>_<fault> are variants of the definition that *)
(* follows them with a plausible bug; no specification uses them.          *)
(***************************************************************************)
EXTENDS Naturals, Sequences

CONSTANTS
    Requests,    \* changes of the cart that can be on their way at once
    None,        \* nothing cached
    MaxClicks,   \* bound: clicks
    MaxFaults,   \* bound: calls that fail in the network
    MaxSessions  \* bound: logins, logouts and reloads

ASSUME CustomerCartAssumption ==
    /\ MaxClicks \in Nat /\ MaxFaults \in Nat /\ MaxSessions \in Nat

VARIABLES
    auth,     \* isAuthenticated
    leaving,  \* logout has set window.location: the page is about to load anew
    shown,    \* the cart of CartProvider
    pending,  \* pendingRequestsRef
    stored,   \* the guest cart in localStorage
    timer,    \* lsDebounceRef: a write of the shown cart is due
    req,      \* a change of the account's cart, in the browser and on the server
    get,      \* the GET of the cart that is in flight, shared by its callers
    cache,    \* its cached answer
    db,       \* the Cart document: its lines and its version key
    before,   \* history: the cart shown before the last change
    doubt,    \* history: since an overlap, failed fetch or broken call, no answer in peace
    clicks, faults, sessions

vars == <<auth, leaving, shown, pending, stored, timer, req, get, cache, db, before, doubt,
          clicks, faults, sessions>>

page    == <<shown, stored, timer, before>>
network == <<req, get, cache, db>>
bounds  == <<clicks, faults, sessions>>

-----------------------------------------------------------------------------
\* A line as the page knows it: its quantity and whose cart it comes from.
Line(n, of)    == [qty |-> n, of |-> of]
Lines          == Seq([qty : Nat, of : {"guest", "account"}])
ServerLines    == Seq(Nat)
FromServer(ls) == [i \in DOMAIN ls |-> Line(ls[i], "account")]

Places  == {"idle", "sent", "read", "saved", "answered", "error"}
Ops     == {"add", "update", "remove", "clear"}

\* deaf: nobody waits for the answer.  alone: nothing else was on its way meanwhile.
Changes == [pc : Places, op : Ops, qty : Nat, cart : ServerLines, ver : Nat,
            deaf : BOOLEAN, alone : BOOLEAN]
Gets    == [pc : {"none", "sent", "answered"}, cart : ServerLines, alone : BOOLEAN]

NoRequest == [pc |-> "idle", op |-> "add", qty |-> 0, cart |-> <<>>, ver |-> 0,
              deaf |-> FALSE, alone |-> FALSE]
NoGet     == [pc |-> "none", cart |-> <<>>, alone |-> FALSE]

Quiet == get.pc = "none" /\ \A r \in Requests : req[r].pc = "idle"

At(r, label) == req[r].pc = label
Fault        == faults < MaxFaults /\ faults' = faults + 1 /\ UNCHANGED <<clicks, sessions>>

Init ==
    /\ auth = FALSE /\ leaving = FALSE /\ shown = <<>> /\ pending = 0
    /\ stored = <<>> /\ timer = FALSE
    /\ req = [r \in Requests |-> NoRequest] /\ get = NoGet /\ cache = None
    /\ db = [lines |-> <<>>, ver |-> 0]
    /\ before = <<>> /\ doubt = FALSE
    /\ clicks = 0 /\ faults = 0 /\ sessions = 0

-----------------------------------------------------------------------------
\* setCart.  For a guest the effect's cleanup stores the cart of the render before, and
\* the effect starts the timer that stores the new one.
SetCart_NoFlush(new) ==
    /\ shown' = new /\ before' = shown
    /\ IF auth THEN UNCHANGED <<stored, timer>> ELSE timer' = TRUE /\ UNCHANGED stored
SetCart(new) ==
    /\ shown' = new /\ before' = shown
    /\ IF auth THEN UNCHANGED <<stored, timer>> ELSE stored' = shown /\ timer' = TRUE

WriteTimer ==
    /\ timer
    /\ stored' = shown /\ timer' = FALSE
    /\ UNCHANGED <<auth, leaving, shown, pending, network, before, doubt, bounds>>

\* getWithDedupe: the cached answer, the GET in flight, or a new one.
FetchCart ==
    IF cache # None
    THEN SetCart(FromServer(cache)) /\ UNCHANGED get
    ELSE /\ UNCHANGED page
         /\ get' = IF get.pc # "none" THEN get
                   ELSE [NoGet EXCEPT !.pc = "sent",
                                      !.alone = \A r \in Requests : req[r].pc \in {"idle", "error"}]

\* What a click changes on the page before it is sent.
Incremented(n) == [i \in DOMAIN shown |-> [shown[i] EXCEPT !.qty = @ + n]]
Optimistic(op, of) ==
    CASE op = "add"    -> IF shown = <<>> THEN <<Line(1, of)>> ELSE Incremented(1)
      [] op = "update" -> [i \in DOMAIN shown |-> [shown[i] EXCEPT !.qty = shown[1].qty + 1]]
      [] op = "remove" -> <<>>

Sent(r, op) ==
    [q \in Requests |->
        IF q = r THEN [NoRequest EXCEPT !.pc = "sent", !.op = op, !.alone = Quiet,
                                        !.qty = IF op = "update" THEN shown[1].qty + 1 ELSE 0]
                 ELSE [req[q] EXCEPT !.alone = FALSE]]

\* addToCart, removeFromCart, updateQuantity and clearCart of a customer who is logged in;
\* the call drops the cached answer, and not the GET in flight.
Click_KeepsCache(r, op) ==
    /\ auth /\ ~leaving /\ At(r, "idle") /\ clicks < MaxClicks
    /\ op = "update" => shown # <<>>
    /\ req' = Sent(r, op) /\ get' = [get EXCEPT !.alone = FALSE]
    /\ IF op = "clear" THEN UNCHANGED <<page, pending>>
                       ELSE SetCart(Optimistic(op, "account")) /\ pending' = pending + 1
    /\ doubt' = (doubt \/ ~Quiet)
    /\ clicks' = clicks + 1
    /\ UNCHANGED <<auth, leaving, cache, db, faults, sessions>>
Click(r, op) ==
    /\ auth /\ ~leaving /\ At(r, "idle") /\ clicks < MaxClicks
    /\ op = "update" => shown # <<>>
    /\ cache' = None
    /\ req' = Sent(r, op) /\ get' = [get EXCEPT !.alone = FALSE]
    /\ IF op = "clear" THEN UNCHANGED <<page, pending>>
                       ELSE SetCart(Optimistic(op, "account")) /\ pending' = pending + 1
    /\ doubt' = (doubt \/ ~Quiet)
    /\ clicks' = clicks + 1
    /\ UNCHANGED <<auth, leaving, db, faults, sessions>>

\* The same of a guest.
GuestClick(op) ==
    /\ ~auth /\ ~leaving /\ clicks < MaxClicks
    /\ op = "update" => shown # <<>>
    /\ SetCart(IF op = "clear" THEN <<>> ELSE Optimistic(op, "guest"))
    /\ clicks' = clicks + 1
    /\ UNCHANGED <<auth, leaving, pending, network, doubt, faults, sessions>>

-----------------------------------------------------------------------------
\* The server's handler reads the cart, ...
Read(r) ==
    /\ At(r, "sent")
    /\ req' = [req EXCEPT ![r].pc = "read", ![r].cart = db.lines, ![r].ver = db.ver]
    /\ UNCHANGED <<auth, leaving, page, pending, get, cache, db, doubt, bounds>>

\* ... and saves what it made of it.  mongoose sends a new line as $push; a quantity by its
\* position, and the whole array, only for the version that was read.
Saves(r, write) ==
    IF write.where => db.ver = req[r].ver
    THEN db' = [lines |-> write.lines, ver |-> db.ver + write.inc] /\ req' = [req EXCEPT ![r].pc = "saved"]
    ELSE req' = [req EXCEPT ![r].pc = "error"] /\ UNCHANGED db

SetFirst(q) == [lines |-> [i \in DOMAIN db.lines |-> IF i = 1 THEN q ELSE db.lines[i]],
                where |-> TRUE, inc |-> 0]
Push        == [lines |-> Append(db.lines, 1), where |-> FALSE, inc |-> 1]
Empty       == [lines |-> <<>>, where |-> TRUE, inc |-> 1]
Nothing     == [lines |-> db.lines, where |-> FALSE, inc |-> 0]

Save(r) ==
    LET seen == req[r].cart IN
    /\ At(r, "read")
    /\ CASE req[r].op = "add" -> Saves(r, IF seen = <<>> THEN Push ELSE SetFirst(seen[1] + 1))
         [] req[r].op = "update" /\ seen # <<>> -> Saves(r, SetFirst(req[r].qty))
         [] req[r].op = "update" /\ seen = <<>> ->
                req' = [req EXCEPT ![r].pc = "error"] /\ UNCHANGED db
         [] OTHER -> Saves(r, IF seen = <<>> THEN Nothing ELSE Empty)
    /\ UNCHANGED <<auth, leaving, page, pending, get, cache, doubt, bounds>>

\* fetchPopulatedCart reads the answer again.
Answer(r) ==
    /\ At(r, "saved")
    /\ req' = [req EXCEPT ![r].pc = "answered", ![r].cart = db.lines]
    /\ UNCHANGED <<auth, leaving, page, pending, get, cache, db, doubt, bounds>>

\* The request is lost before the server sees it, or its answer is.
Lost(r) ==
    /\ req[r].pc \in {"sent", "answered"} /\ Fault
    /\ req' = [req EXCEPT ![r].pc = "error"]
    /\ UNCHANGED <<auth, leaving, page, pending, get, cache, db, doubt>>

Ended(r) == [req EXCEPT ![r] = NoRequest]

\* syncCart takes the answer over when no other is awaited.
Answered(r) ==
    /\ At(r, "answered") /\ ~req[r].deaf
    /\ IF req[r].op = "clear"
       THEN /\ UNCHANGED pending
            /\ SetCart(<<>>)
       ELSE /\ pending' = pending - 1
            /\ IF pending = 1 THEN SetCart(FromServer(req[r].cart)) ELSE UNCHANGED page
    /\ doubt' = (doubt /\ ~req[r].alone)
    /\ req' = Ended(r)
    /\ UNCHANGED <<auth, leaving, get, cache, db, bounds>>

\* The catch blocks: the cart is fetched when no other answer is awaited; with the token
\* gone that fails.  clearCart only logs the error.
CatchBlock_LeavesPending(r) ==
    /\ IF req[r].op # "clear" /\ pending = 1 /\ auth
       THEN FetchCart ELSE UNCHANGED <<page, get>>
    /\ UNCHANGED pending
CatchBlock(r) ==
    /\ IF req[r].op # "clear" /\ pending = 1 /\ auth
       THEN FetchCart ELSE UNCHANGED <<page, get>>
    /\ pending' = IF req[r].op = "clear" THEN pending ELSE pending - 1

Failed(r) ==
    /\ At(r, "error") /\ ~req[r].deaf
    /\ CatchBlock(r)
    /\ doubt' = (doubt \/ req[r].op = "clear")
    /\ req' = Ended(r)
    /\ UNCHANGED <<auth, leaving, cache, db, bounds>>

\* The connection breaks, or the browser gives up, while the request is on its way or the
\* server at work on it: the server goes on, and nobody waits for its answer.
BreaksOff(r) ==
    /\ req[r].pc \in {"sent", "read", "saved"} /\ ~req[r].deaf /\ Fault
    /\ CatchBlock(r)
    /\ doubt' = TRUE
    /\ req' = [req EXCEPT ![r].deaf = TRUE, ![r].alone = FALSE]
    /\ UNCHANGED <<auth, leaving, cache, db>>

\* Nobody waits for the answer any more.
Unheard(r) ==
    /\ req[r].deaf /\ req[r].pc \in {"answered", "error"}
    /\ req' = Ended(r)
    /\ UNCHANGED <<auth, leaving, page, pending, get, cache, db, doubt, bounds>>

-----------------------------------------------------------------------------
\* getCart on the server, and its answer, cached and shown whatever is pending.
GetRead ==
    /\ get.pc = "sent"
    /\ get' = [get EXCEPT !.pc = "answered", !.cart = db.lines]
    /\ UNCHANGED <<auth, leaving, page, pending, req, cache, db, doubt, bounds>>

GetAnswered ==
    /\ get.pc = "answered"
    /\ cache' = get.cart
    /\ SetCart(FromServer(get.cart))
    /\ doubt' = (doubt /\ ~get.alone)
    /\ get' = NoGet
    /\ UNCHANGED <<auth, leaving, pending, req, db, bounds>>

GetFails ==
    /\ get.pc # "none" /\ Fault
    /\ get' = NoGet
    /\ doubt' = TRUE
    /\ UNCHANGED <<auth, leaving, page, pending, req, cache, db>>

CacheExpires ==
    /\ cache # None
    /\ cache' = None
    /\ UNCHANGED <<auth, leaving, page, pending, req, get, db, doubt, bounds>>

-----------------------------------------------------------------------------
Session == sessions < MaxSessions /\ sessions' = sessions + 1 /\ UNCHANGED <<clicks, faults>>

\* The guest's cart is stored by the cleanup, dropped by the other effect, and stays on
\* the page until the account's arrives.
Login ==
    /\ ~auth /\ ~leaving /\ Session
    /\ auth' = TRUE /\ stored' = <<>> /\ timer' = FALSE
    /\ IF cache # None
       THEN shown' = FromServer(cache) /\ before' = shown /\ UNCHANGED get
       ELSE /\ get' = IF get.pc # "none" THEN get ELSE [NoGet EXCEPT !.pc = "sent", !.alone = Quiet]
            /\ UNCHANGED <<shown, before>>
    /\ doubt' = TRUE
    /\ UNCHANGED <<leaving, pending, req, cache, db>>

\* logout drops the stored cart and leaves the page.  Before it is gone the render without
\* the account runs: its effects read the stored cart back, and store the cart they were
\* rendered with, the account's.
Logout ==
    /\ auth /\ ~leaving /\ Session
    /\ auth' = FALSE /\ leaving' = TRUE
    /\ shown' = <<>> /\ before' = shown
    /\ stored' = shown /\ timer' = TRUE
    /\ UNCHANGED <<pending, network, doubt>>

\* The page loads: after logout, or because the user wants it.
Load ==
    /\ shown' = stored /\ before' = stored /\ pending' = 0 /\ cache' = None
    /\ req' = [r \in Requests |-> [req[r] EXCEPT !.deaf = ~At(r, "idle"), !.alone = FALSE]]
    /\ doubt' = TRUE
    /\ IF auth
       THEN /\ stored' = <<>> /\ timer' = FALSE
            /\ get' = [NoGet EXCEPT !.pc = "sent", !.alone = \A r \in Requests : At(r, "idle")]
       ELSE timer' = TRUE /\ get' = NoGet /\ UNCHANGED stored

LoadAfterLogout ==
    /\ leaving
    /\ Load
    /\ leaving' = FALSE
    /\ UNCHANGED <<auth, db, bounds>>

Reload ==
    /\ ~leaving /\ Session
    /\ Load
    /\ UNCHANGED <<auth, leaving, db>>

-----------------------------------------------------------------------------
Serve(r)  == Read(r) \/ Save(r) \/ Answer(r)
Handle(r) == Answered(r) \/ Failed(r) \/ Unheard(r)

Next ==
    \/ \E r \in Requests : Serve(r) \/ Handle(r) \/ Lost(r) \/ BreaksOff(r) \/ \E op \in Ops : Click(r, op)
    \/ \E op \in Ops : GuestClick(op)
    \/ WriteTimer \/ GetRead \/ GetAnswered \/ GetFails \/ CacheExpires
    \/ Login \/ Logout \/ LoadAfterLogout \/ Reload

Spec == Init /\ [][Next]_vars

\* The server answers, the browser handles answers and timers.
FairSpec ==
    /\ Spec
    /\ WF_vars(GetRead) /\ WF_vars(GetAnswered) /\ WF_vars(WriteTimer) /\ WF_vars(LoadAfterLogout)
    /\ \A r \in Requests : WF_vars(Serve(r)) /\ WF_vars(Handle(r))

-----------------------------------------------------------------------------
TypeOK ==
    /\ auth \in BOOLEAN /\ leaving \in BOOLEAN /\ timer \in BOOLEAN /\ doubt \in BOOLEAN
    /\ shown \in Lines /\ stored \in Lines /\ before \in Lines
    /\ pending \in 0..MaxClicks
    /\ req \in [Requests -> Changes] /\ get \in Gets
    /\ cache \in ServerLines \cup {None}
    /\ db \in [lines : ServerLines, ver : Nat]
    /\ clicks \in 0..MaxClicks /\ faults \in 0..MaxFaults /\ sessions \in 0..MaxSessions

\* The page shows the server's cart when nothing is on its way, whatever the server refused
\* or answered from another version and whether a request or its answer was lost: an
\* optimistic change is never left standing.  Until one call went through in peace again,
\* it need not after the customer clicked into a call, after a fetch or a clearCart failed,
\* or after a call broke off under the server's hands, whose write may come after the fetch
\* that replaces the answer (the catch blocks, syncCart, getWithDedupe, invalidateCache).
ShownIsTheServersCart ==
    auth /\ Quiet /\ ~doubt => shown = FromServer(db.lines)

\* Answers are taken over only when none is pending, so the count must come back to zero
\* after every failure and survive a logout (pendingRequestsRef).
PendingReturnsToZero == pending > 0 ~> pending = 0

\* A guest who closes the tab loses at most the last change: what is stored is the cart
\* shown, or the one before (the save effect and its cleanup).
GuestLosesOneChange == ~auth => stored \in {shown, before}
================================================================================
