-------------------------------- MODULE ARQ --------------------------------
(***************************************************************************)
(* The queue of ARAM transfers: src/libogc/arqueue.c.  Requests of high    *)
(* priority go first and in one piece; requests of low priority go in      *)
(* chunks, between which high ones overtake them.  Every function masks    *)
(* interrupts, so it is one action.  Lengths are in units of 32 bytes.     *)
(***************************************************************************)
EXTENDS LwpQueue, FiniteSetsExt, Functions

CONSTANTS Requests,   \* ARQRequest objects
          OwnerOf,    \* the owner each request is posted with
          NULL,
          Lengths,    \* the lengths of transfers
          Chunks,     \* the sizes ARQ_SetChunkSize is called with
          DefChunk,   \* ARQ_DEF_CHUNK_SIZE
          MaxPosts    \* bound on the number of requests posted

VARIABLES
  arq,        \* the driver's static variables, the fields of the requests
              \* that it changes, and the DMA engine with its interrupt
  req,        \* what each request was posted with, its place in the order
              \* of posts, and how much of it the engine has moved
  waits,      \* where the thread in ARQ_PostRequest(r) is
  posts       \* number of requests posted so far

vars == <<arq, req, waits, posts>>

Prios == {"hi", "lo"}
MaxLen == Max(Lengths)
Waiting == UNION {Members(arq.h, q, Requests) : q \in Prios}
Pending == {arq.pendHi, arq.pendLo} \ {NULL}

---------------------------------------------------------------------------
(* The static functions, on the driver's state.                            *)
AR_StartDMA(d, r, n) ==
  [d EXCEPT !.state[r] = "RUNNING", !.dma = [req |-> r, len |-> n]]

PopTaskQueueHi(d) ==
  LET r == First(d.h, "hi")
  IN  IF IsEmpty(d.h, "hi") THEN d
      ELSE AR_StartDMA([d EXCEPT !.h = DropFirst(@, "hi"), !.pendHi = r, !.cbHi = TRUE],
                       r, d.left[r])

TakeLo(d) ==
  IF d.pendLo # NULL \/ IsEmpty(d.h, "lo") THEN d
  ELSE [d EXCEPT !.pendLo = First(d.h, "lo"), !.h = DropFirst(@, "lo")]

OnlyExactly(n, chunk) == n = chunk

LastChunk(n, chunk) == n <= chunk

ChunkTooMuch(n, chunk) == n - chunk - 1

ChunkLeft(n, chunk) == n - chunk

ServiceQueueLo(d) ==
  LET e == TakeLo(d)
      r == e.pendLo
  IN  IF r = NULL THEN e
      ELSE IF LastChunk(e.left[r], e.chunk)
      THEN AR_StartDMA([e EXCEPT !.cbLo = TRUE], r, e.left[r])
      ELSE AR_StartDMA([e EXCEPT !.left[r] = ChunkLeft(@, e.chunk)], r, e.chunk)

LoBeforeHi(d) ==
  LET e == ServiceQueueLo(d) IN IF e.pendLo = NULL THEN PopTaskQueueHi(e) ELSE e

HiOnly(d) == PopTaskQueueHi(d)

Service(d) ==
  LET e == PopTaskQueueHi(d) IN IF e.pendHi = NULL THEN ServiceQueueLo(e) ELSE e

(* The request that the interrupt ends: none after a chunk that was not    *)
(* the last of its request.                                                *)
Ended == IF arq.cbHi THEN arq.pendHi ELSE IF arq.cbLo THEN arq.pendLo ELSE NULL

(* What the interrupt handler does after the callback.                     *)
AfterCallback(d) ==
  Service(IF d.cbHi THEN [d EXCEPT !.pendHi = NULL, !.cbHi = FALSE]
          ELSE IF d.cbLo THEN [d EXCEPT !.pendLo = NULL, !.cbLo = FALSE] ELSE d)

---------------------------------------------------------------------------
(* Posting.                                                                *)
HiIdle(d) == d.pendHi = NULL

Idle(d) == d.pendLo = NULL /\ d.pendHi = NULL

Enqueue(d, r, p, n) ==
  LET e == [d EXCEPT !.h = AppendI(@, p, r), !.left[r] = n, !.state[r] = "READY"]
  IN  IF Idle(d) THEN Service(e) ELSE e

(* The caller's side of a post: it owns r, which is not in use.            *)
Asks(r, p, n, cb) ==
  /\ posts < MaxPosts /\ waits[r] = "no" /\ r \notin Waiting
  /\ req' = [req EXCEPT ![r] = [prio |-> p, cb |-> cb, len |-> n,
                                moved |-> 0, ticket |-> posts]]
  /\ posts' = posts + 1

ARQ_PostRequestAsync(r, p, n) ==
  /\ r \notin Pending
  /\ Asks(r, p, n, "async")
  /\ arq' = Enqueue(arq, r, p, n)
  /\ UNCHANGED waits

ARQ_PostRequest(r, p, n) ==
  /\ r \notin Pending
  /\ Asks(r, p, n, "sync")
  /\ arq' = Enqueue(arq, r, p, n)
  /\ waits' = [waits EXCEPT ![r] = "check"]

(* The loop of ARQ_PostRequest, entered anew after every wake-up.          *)
ReturnOrSleep(r) ==
  /\ waits[r] = "check"
  /\ waits' = [waits EXCEPT ![r] = IF arq.state[r] = "FINISHED" THEN "no" ELSE "sleep"]
  /\ UNCHANGED <<arq, req, posts>>

---------------------------------------------------------------------------
(* The engine and its interrupt.                                           *)
TransferDone ==
  /\ arq.dma # NULL
  /\ arq' = [arq EXCEPT !.dma = NULL, !.irq = TRUE]
  /\ req' = [req EXCEPT ![arq.dma.req].moved = @ + arq.dma.len]
  /\ UNCHANGED <<waits, posts>>

WakeNone == waits

(* LWP_ThreadBroadcast in __ARQCallbackSync                                *)
WakeAll == [r \in Requests |-> IF waits[r] = "sleep" THEN "check" ELSE waits[r]]

Acknowledged ==
  IF Ended = NULL THEN [arq EXCEPT !.irq = FALSE]
  ELSE [arq EXCEPT !.irq = FALSE, !.state[Ended] = "FINISHED"]

InterruptServiceRoutine ==
  /\ arq.irq
  /\ arq' = AfterCallback(Acknowledged)
  /\ waits' = IF Ended # NULL /\ req[Ended].cb = "sync" THEN WakeAll ELSE waits
  /\ UNCHANGED <<req, posts>>

(* The same when the callback posts a request, perhaps the one that ended. *)
InterruptThenPost(r, p, n) ==
  /\ arq.irq /\ Ended # NULL /\ req[Ended].cb = "async"
  /\ r \notin Pending \ {Ended}
  /\ Asks(r, p, n, "async")
  /\ arq' = AfterCallback(Enqueue(Acknowledged, r, p, n))
  /\ UNCHANGED waits

---------------------------------------------------------------------------
(* Giving up requests.  A low request between its chunks is dropped; one   *)
(* whose last chunk is under way is not.                                   *)
DropPendingLo(d) == IF d.cbLo THEN d ELSE [d EXCEPT !.pendLo = NULL]

Emptied(h) == InitEmpty(InitEmpty(h, "lo"), "hi")

ARQ_FlushQueue ==
  /\ arq' = DropPendingLo([arq EXCEPT !.h = Emptied(@)])
  /\ UNCHANGED <<req, waits, posts>>

ARQ_RemoveRequest(r) ==
  LET d == [arq EXCEPT !.h = ExtractI(@, r)] IN
  /\ NULL \notin {arq.h.next[r], arq.h.prev[r]}
  /\ arq' = IF d.pendLo = r THEN DropPendingLo(d) ELSE d
  /\ UNCHANGED <<req, waits, posts>>

OwnedBy(o) == {r \in Waiting : OwnerOf[r] = o}

(* The final test for a pending request compares it with the end of the    *)
(* list, where the walk has stopped, so it never drops one.                *)
ARQ_RemoveOwnerRequest(o) ==
  /\ arq' = [arq EXCEPT !.h = FoldSet(LAMBDA r, h : ExtractI(h, r), @, OwnedBy(o))]
  /\ UNCHANGED <<req, waits, posts>>

ARQ_SetChunkSize(n) ==
  /\ arq' = [arq EXCEPT !.chunk = n]
  /\ UNCHANGED <<req, waits, posts>>

(* ARQ_Init, which does something only after ARQ_Reset.                    *)
ARQ_ResetInit ==
  /\ arq' = [arq EXCEPT !.h = Emptied(@), !.pendHi = NULL, !.pendLo = NULL,
                        !.cbHi = FALSE, !.cbLo = FALSE, !.chunk = DefChunk]
  /\ UNCHANGED <<req, waits, posts>>

---------------------------------------------------------------------------
(* After the first ARQ_Init.                                               *)
Init ==
  /\ arq = [h |-> Emptied(Unlinked(Requests, Prios, NULL)),
            pendHi |-> NULL, pendLo |-> NULL, cbHi |-> FALSE, cbLo |-> FALSE,
            chunk |-> DefChunk, state |-> [r \in Requests |-> "NEW"],
            left |-> [r \in Requests |-> 0], dma |-> NULL, irq |-> FALSE]
  /\ req = [r \in Requests |-> [prio |-> "lo", cb |-> "async", len |-> 0,
                                moved |-> 0, ticket |-> 0]]
  /\ waits = [r \in Requests |-> "no"]
  /\ posts = 0

Post ==
  \E r \in Requests, p \in Prios, n \in Lengths :
    \/ ARQ_PostRequestAsync(r, p, n)
    \/ ARQ_PostRequest(r, p, n)
    \/ InterruptThenPost(r, p, n)

Progress ==
  \/ TransferDone
  \/ InterruptServiceRoutine
  \/ \E r \in Requests : ReturnOrSleep(r)

(***************************************************************************)
(* What callers must respect, because the code does not: a request that a  *)
(* thread waits for is not given up; a low request is not given up while a *)
(* chunk of it moves, for the engine would be taken to be idle; only a     *)
(* queued request is removed, for the links of another one are stale; and  *)
(* the driver is initialised again only when it has nothing to do.         *)
(***************************************************************************)
NoneAwaited(s) == \A r \in s : waits[r] = "no"
ChunkMoves == arq.pendLo # NULL /\ arq.pendHi = NULL

Configure ==
  \/ ARQ_ResetInit /\ Pending = {} /\ Waiting = {}
  \/ \E n \in Chunks : ARQ_SetChunkSize(n)

GiveUp ==
  \/ ARQ_FlushQueue /\ (~ChunkMoves \/ arq.cbLo)
                    /\ NoneAwaited(Waiting \cup ({arq.pendLo} \ {NULL}))
  \/ \E r \in Waiting : ARQ_RemoveRequest(r) /\ NoneAwaited({r})
  \/ \E o \in Range(OwnerOf) : ARQ_RemoveOwnerRequest(o) /\ NoneAwaited(OwnedBy(o))

Next == Post \/ Progress \/ Configure \/ GiveUp

(* The engine finishes every transfer, its interrupt is taken, and a       *)
(* thread that is awake gets to run.                                       *)
Fairness ==
  /\ WF_vars(TransferDone)
  /\ WF_vars(InterruptServiceRoutine)
  /\ \A r \in Requests : WF_vars(ReturnOrSleep(r))

SafetySpec == Init /\ [][Next]_vars
Spec == SafetySpec /\ Fairness

---------------------------------------------------------------------------
TypeOK ==
  /\ arq.pendHi \in Requests \cup {NULL} /\ arq.pendLo \in Requests \cup {NULL}
  /\ {arq.cbHi, arq.cbLo, arq.irq} \subseteq BOOLEAN
  /\ arq.chunk \in Chunks \cup {DefChunk}
  /\ arq.state \in [Requests -> {"NEW", "READY", "RUNNING", "FINISHED"}]
  /\ arq.left \in [Requests -> 0..MaxLen]
  /\ arq.dma \in [req : Requests, len : 1..MaxLen] \cup {NULL}
  /\ req \in [Requests -> [prio : Prios, cb : {"async", "sync"},
                           len : 0..MaxLen, moved : 0..MaxLen, ticket : 0..MaxPosts]]
  /\ waits \in [Requests -> {"no", "check", "sleep"}]
  /\ posts \in 0..MaxPosts

(* The two lists are whole in both directions and share no request, and a  *)
(* request on one of them is not the one being served, although nodes keep *)
(* the links of the list they left.                                        *)
QueuesSound ==
  /\ \A q \in Prios : WellFormed(arq.h, q, Requests)
  /\ Members(arq.h, "hi", Requests) \cap Members(arq.h, "lo", Requests) = {}
  /\ Pending \cap Waiting = {}
  /\ arq.pendHi # NULL => arq.pendHi # arq.pendLo

(* The engine works or its interrupt is due exactly as long as the driver  *)
(* has a pending request, the high one if there are two; so no queued      *)
(* request waits for an interrupt that will not come.                      *)
EngineServes ==
  /\ arq.dma # NULL \/ arq.irq <=> Pending # {}
  /\ arq.dma # NULL => arq.dma.req = IF arq.pendHi # NULL THEN arq.pendHi ELSE arq.pendLo
  /\ Waiting # {} => Pending # {}

(* A request is reported finished only when every unit of it has been      *)
(* moved, however often it was overtaken and the chunk size changed.       *)
FinishedIsMoved ==
  \A r \in Requests : arq.state[r] = "FINISHED" => req[r].moved = req[r].len

(* The engine is never given a transfer while it works on another one.     *)
NoOverlap ==
  [][arq.dma # NULL /\ arq'.dma # NULL => arq'.dma = arq.dma]_vars

(* A new transfer belongs to the oldest request of its priority, and to a  *)
(* low one only if no high one waits.                                      *)
StartsOldest ==
  arq'.dma # NULL /\ arq.dma = NULL =>
    LET r == arq'.dma.req
    IN  /\ \A s \in Waiting' :
             req'[s].prio = req'[r].prio => req'[s].ticket > req'[r].ticket
        /\ req'[r].prio = "lo" => IsEmpty(arq'.h, "hi")
ServedInOrder == [][StartsOldest]_vars

(* A thread that waits for its transfer returns, once no more requests are *)
(* posted that overtake it.                                                *)
SyncReturns == \A r \in Requests : waits[r] = "check" ~> waits[r] = "no"
=============================================================================
