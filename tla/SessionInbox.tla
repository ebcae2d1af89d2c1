---------------------------- MODULE SessionInbox ----------------------------
(***************************************************************************)
(* The inbox of one chat session: core/managers/session_manager.py,        *)
(* SessionTaskManager.  Every operation runs under the manager's asyncio   *)
(* lock, so each is one action.  A chat's entries in _inboxes,             *)
(* _leased_counts and _running are the variables inbox, leasedCount and    *)
(* running; sessions share nothing but the token counter, so one session   *)
(* is enough.                                                              *)
(*                                                                         *)
(* A lease (InboxLease) is an object its claimant holds.  Slots name the   *)
(* places where a claimant can hold one.                                   *)
(***************************************************************************)
EXTENDS Integers, Sequences, FiniteSets

CONSTANTS
  Messages,   \* identities of the inbound envelopes (PendingInbound)
  Ambient,    \* the envelopes whose intent is GROUP_AMBIENT
  Direct,     \* the envelopes whose intent is DIRECT_TASK; others are private
  Sender,     \* Sender[m]: the principal that sent m
  MaxInbox,   \* max_inbox_size
  MaxToken,   \* bound of the model: consumer tokens ever issued
  Slots,      \* places that can hold a lease
  OrderlyStop \* TRUE: cleanup_all runs only once every lease is settled

ASSUME InboxAssumption ==
  /\ Ambient \subseteq Messages
  /\ Direct \subseteq Messages
  /\ Ambient \cap Direct = {}
  /\ MaxInbox \in Nat \ {0}
  /\ MaxToken \in Nat \ {0}
  /\ OrderlyStop \in BOOLEAN

VARIABLES
  inbox,       \* FIFO of the envelopes no one has leased
  leasedCount, \* _leased_counts: leased and not yet settled
  running,     \* _running: the token that owns the consumer slot, 0 if none
  nextToken,   \* _next_consumer_token
  lease,       \* the lease each slot holds
  mstate       \* _states: what became of each message

inboxVars == <<inbox, leasedCount, running, nextToken, lease, mstate>>

NoOwner == 0
Tokens == 1 .. MaxToken
MessageStates == {"none", "accepted", "admitted", "dropped", "failed"}
NoLease == [items |-> <<>>, committed |-> 0, active |-> FALSE]
Leases == [items : Seq(Messages), committed : Nat, active : BOOLEAN]

ItemsOf(s) == {s[i] : i \in DOMAIN s}
Distinct(s) == \A i, j \in DOMAIN s : s[i] = s[j] => i = j
Without(s, i) == SubSeq(s, 1, i - 1) \o SubSeq(s, i + 1, Len(s))

SameIntent(m, n) ==
  /\ m \in Ambient <=> n \in Ambient
  /\ m \in Direct <=> n \in Direct

Uncommitted(l) == SubSeq(l.items, l.committed + 1, Len(l.items))

Closed(l) == [items |-> l.items, committed |-> l.committed, active |-> FALSE]

HasPending(S) == \E i \in DOMAIN inbox : inbox[i] \in S

(***************************************************************************)
(* The states of the inbox.                                                *)
(***************************************************************************)
InboxTypeOK ==
  /\ inbox \in Seq(Messages)
  /\ leasedCount \in Nat
  /\ running \in Tokens \cup {NoOwner}
  /\ nextToken \in 0 .. MaxToken
  /\ lease \in [Slots -> Leases]
  /\ mstate \in [Messages -> MessageStates]

InboxInit ==
  /\ inbox = <<>>
  /\ leasedCount = 0
  /\ running = NoOwner
  /\ nextToken = 0
  /\ lease = [s \in Slots |-> NoLease]
  /\ mstate = [m \in Messages |-> "none"]

(***************************************************************************)
(* Enqueueing.  The inbox is full when queued and leased items reach the   *)
(* bound; it then gives up its oldest ambient item, or refuses the new one.*)
(***************************************************************************)
Full == Len(inbox) + leasedCount >= MaxInbox

OldestAmbient(i) ==
  /\ inbox[i] \in Ambient
  /\ \A j \in 1 .. i - 1 : inbox[j] \notin Ambient

\* A mutant of TakeSlotIfFree: the token counter stands still.
TakeSlotReusingToken ==
  IF running = NoOwner
  THEN running' = 1 /\ nextToken' = 1
  ELSE UNCHANGED <<running, nextToken>>

TakeSlotIfFree ==
  IF running = NoOwner
  THEN /\ nextToken < MaxToken
       /\ nextToken' = nextToken + 1
       /\ running' = nextToken + 1
  ELSE UNCHANGED <<running, nextToken>>

EnqueueRoom(m) ==
  /\ ~Full
  /\ inbox' = Append(inbox, m)
  /\ mstate' = [mstate EXCEPT ![m] = "accepted"]
  /\ TakeSlotIfFree
  /\ UNCHANGED <<leasedCount, lease>>

EnqueueDropping(m) ==
  /\ Full
  /\ \E i \in DOMAIN inbox :
        /\ OldestAmbient(i)
        /\ inbox' = Append(Without(inbox, i), m)
        /\ mstate' = [mstate EXCEPT ![m] = "accepted", ![inbox[i]] = "dropped"]
  /\ TakeSlotIfFree
  /\ UNCHANGED <<leasedCount, lease>>

EnqueueRefused(m) ==
  /\ Full
  /\ ~HasPending(Ambient)
  /\ mstate' = [mstate EXCEPT ![m] = "dropped"]
  /\ UNCHANGED <<inbox, leasedCount, running, nextToken, lease>>

Enqueue(m) == EnqueueRoom(m) \/ EnqueueDropping(m) \/ EnqueueRefused(m)

(***************************************************************************)
(* Claiming.                                                               *)
(***************************************************************************)
\* Mutant of Release: an item too many, and no floor.
ReleaseTooMany(n) == leasedCount - (n + 1)

Release(n) == IF leasedCount > n THEN leasedCount - n ELSE 0

\* Mutant of ClaimNext: no reservation.
ClaimNextUnreserved(s, t) ==
  /\ running = t
  /\ inbox # <<>>
  /\ lease' = [lease EXCEPT ![s] = [items |-> <<Head(inbox)>>,
                                    committed |-> 0, active |-> TRUE]]
  /\ inbox' = Tail(inbox)
  /\ UNCHANGED <<leasedCount, running, nextToken, mstate>>

ClaimNext(s, t) ==
  /\ running = t
  /\ inbox # <<>>
  /\ lease' = [lease EXCEPT ![s] = [items |-> <<Head(inbox)>>,
                                    committed |-> 0, active |-> TRUE]]
  /\ inbox' = Tail(inbox)
  /\ leasedCount' = leasedCount + 1
  /\ UNCHANGED <<running, nextToken, mstate>>

\* The run of envelopes from position i on that a steering claim may take:
\* one intent, and accepted by the claimant's candidate filter.
Steerable(i, n, like, Allowed) ==
  /\ i + n - 1 <= Len(inbox)
  /\ \A k \in i .. i + n - 1 : SameIntent(inbox[k], like) /\ inbox[k] \in Allowed

\* Mutant of ClaimSteer: the skipped head is not rotated back to the front.
ClaimSteerUnrotated(s, skip, n, like, Allowed) ==
  /\ running # NoOwner
  /\ Steerable(skip + 1, n, like, Allowed)
  /\ lease' = [lease EXCEPT ![s] =
                 [items |-> SubSeq(inbox, skip + 1, skip + n),
                  committed |-> 0, active |-> TRUE]]
  /\ inbox' = SubSeq(inbox, skip + n + 1, Len(inbox)) \o SubSeq(inbox, 1, skip)
  /\ leasedCount' = leasedCount + n
  /\ UNCHANGED <<running, nextToken, mstate>>

\* Takes n >= 1 items behind position skip (0, or 1 to leave the head).
ClaimSteer(s, skip, n, like, Allowed) ==
  /\ running # NoOwner
  /\ Steerable(skip + 1, n, like, Allowed)
  /\ lease' = [lease EXCEPT ![s] =
                 [items |-> SubSeq(inbox, skip + 1, skip + n),
                  committed |-> 0, active |-> TRUE]]
  /\ inbox' = SubSeq(inbox, 1, skip) \o SubSeq(inbox, skip + n + 1, Len(inbox))
  /\ leasedCount' = leasedCount + n
  /\ UNCHANGED <<running, nextToken, mstate>>

(***************************************************************************)
(* Settling a lease, item by item in order, or giving the rest back.       *)
(***************************************************************************)
Settle(s, how) ==
  LET l == lease[s] IN
  /\ l.active
  /\ l.committed < Len(l.items)
  /\ lease' = [lease EXCEPT ![s] =
                 [items |-> l.items, committed |-> l.committed + 1,
                  active |-> l.committed + 1 < Len(l.items)]]
  /\ leasedCount' = Release(1)
  /\ mstate' = [mstate EXCEPT ![l.items[l.committed + 1]] = how]
  /\ UNCHANGED <<inbox, running, nextToken>>

Commit(s) == Settle(s, "admitted")
Fail(s) == Settle(s, "failed")

\* Mutants of RequeueFront: the lease stays active; the settled items come
\* back too.
RequeueKeepingLease(s) ==
  LET rest == Uncommitted(lease[s]) IN
  /\ lease[s].active
  /\ inbox' = rest \o inbox
  /\ leasedCount' = Release(Len(rest))
  /\ UNCHANGED <<running, nextToken, lease, mstate>>

RequeueWholeLease(s) ==
  /\ lease[s].active
  /\ inbox' = lease[s].items \o inbox
  /\ leasedCount' = Release(Len(lease[s].items))
  /\ lease' = [lease EXCEPT ![s] = Closed(@)]
  /\ UNCHANGED <<running, nextToken, mstate>>

RequeueFront(s) ==
  LET rest == Uncommitted(lease[s]) IN
  /\ lease[s].active
  /\ inbox' = rest \o inbox
  /\ leasedCount' = Release(Len(rest))
  /\ lease' = [lease EXCEPT ![s] = Closed(@)]
  /\ UNCHANGED <<running, nextToken, mstate>>

(***************************************************************************)
(* The consumer slot.                                                      *)
(***************************************************************************)
\* Mutant of HandSlotOn: no replacement although messages are queued.
HandSlotNever == running' = NoOwner /\ UNCHANGED nextToken

HandSlotOn ==
  IF inbox = <<>>
  THEN running' = NoOwner /\ UNCHANGED nextToken
  ELSE /\ nextToken < MaxToken
       /\ nextToken' = nextToken + 1
       /\ running' = nextToken + 1

Handoff(t) ==
  /\ running = t
  /\ HandSlotOn
  /\ UNCHANGED <<inbox, leasedCount, lease, mstate>>

ReleaseIfIdle(t) ==
  /\ running = t
  /\ inbox = <<>>
  /\ running' = NoOwner
  /\ UNCHANGED <<inbox, leasedCount, nextToken, lease, mstate>>

ClaimExisting ==
  /\ running = NoOwner
  /\ inbox # <<>>
  /\ nextToken < MaxToken
  /\ nextToken' = nextToken + 1
  /\ running' = nextToken + 1
  /\ UNCHANGED <<inbox, leasedCount, lease, mstate>>

\* cleanup_all(preserve_inboxes=True), as the engine's stop() calls it.
CleanupAll ==
  /\ OrderlyStop => \A s \in Slots : ~lease[s].active
  /\ leasedCount' = 0
  /\ running' = NoOwner
  /\ UNCHANGED <<inbox, nextToken, lease, mstate>>

-----------------------------------------------------------------------------
(***************************************************************************)
(* The manager on its own, driven by any client that respects the API:     *)
(* dispatch() keeps a message id out while it is pending or admitted, and  *)
(* a claimant puts a lease only where it holds no unsettled one.           *)
(***************************************************************************)
Dispatchable(m) == mstate[m] \in {"none", "dropped", "failed"}

InboxNext ==
  \/ \E m \in Messages : Dispatchable(m) /\ Enqueue(m)
  \/ \E s \in Slots, t \in Tokens : ~lease[s].active /\ ClaimNext(s, t)
  \/ \E s \in Slots, skip \in {0, 1}, n \in 1 .. Len(inbox) :
        /\ ~lease[s].active
        /\ skip + n <= Len(inbox)
        /\ ClaimSteer(s, skip, n, inbox[skip + 1], Messages)
  \/ \E s \in Slots : Commit(s) \/ Fail(s) \/ RequeueFront(s)
  \/ \E t \in Tokens : Handoff(t) \/ ReleaseIfIdle(t)
  \/ ClaimExisting
  \/ CleanupAll

InboxSpec == InboxInit /\ [][InboxNext]_inboxVars

-----------------------------------------------------------------------------
LeasedItems(s) == IF lease[s].active THEN ItemsOf(Uncommitted(lease[s])) ELSE {}

\* A message is never in two places: twice in the inbox, in the inbox and a
\* lease, or in two leases.  Rotating, requeueing and dropping must keep it
\* so, else a user's message is answered twice.
NoDuplicate ==
  /\ Distinct(inbox)
  /\ \A s \in Slots : LeasedItems(s) \cap ItemsOf(inbox) = {}
  /\ \A s, r \in Slots : s # r => LeasedItems(s) \cap LeasedItems(r) = {}
  /\ \A s \in Slots : lease[s].active => Distinct(lease[s].items)

\* Exactly the accepted messages are queued or leased: claims, commits and
\* requeues never lose one and never resurrect a settled one.
AcceptedIsHeld ==
  {m \in Messages : mstate[m] = "accepted"} =
     ItemsOf(inbox) \cup UNION {LeasedItems(s) : s \in Slots}

\* The reservation that keeps room for requeueing: the count is the number
\* of leased items, and queue plus leases never exceed the bound.
CapacityHolds ==
  /\ leasedCount = Cardinality(UNION {LeasedItems(s) : s \in Slots})
  /\ Len(inbox) + leasedCount <= MaxInbox

\* Once a token has lost the slot, it never owns it again, so a consumer that
\* was replaced is refused by every later ownership check.
LostSlotStaysLost ==
  [][\A t \in Tokens : t <= nextToken /\ running # t => running' # t]_inboxVars

\* The inbox implements the fate of messages: however claims, requeues,
\* drops and handoffs interleave, each accepted message is settled once, an
\* admitted one never again, and only ambient ones are dropped.
Fate == INSTANCE MessageFate WITH fate <- mstate, Expendable <- Ambient

FateOfMessages == Fate!FateSpec
=============================================================================
