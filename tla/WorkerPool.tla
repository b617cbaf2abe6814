----------------------------- MODULE WorkerPool -----------------------------
(***************************************************************************)
(* What the worker server promises to the HTTPS sessions that use it: a    *)
(* pool of sessions that come and go, and requests that are answered       *)
(* through a session's one callback or lost.  WorkerSession implements it, *)
(* Frontend uses it.                                                       *)
(***************************************************************************)
EXTENDS Naturals, Sequences, SequencesExt

CONSTANTS Sess,         \* worker sessions
          Stations,     \* callers, one request each
          NoStation     \* the empty callback

VARIABLES pool,     \* the sessions a caller may choose from, oldest first
          made,     \* the sessions that have been accepted
          live,     \* whether a session has authorised itself and not failed
          cb,       \* the caller a session calls back
          owed,     \* the callers whose answer a session may still give
          got       \* the answers a caller has been given, in order, each by its caller

vars == <<pool, made, live, cb, owed, got>>

TypeOK ==
    /\ pool \in Seq(Sess)
    /\ made \in SUBSET Sess
    /\ live \in [Sess -> BOOLEAN]
    /\ cb \in [Sess -> Stations \cup {NoStation}]
    /\ owed \in [Sess -> SUBSET Stations]
    /\ got \in [Stations -> Seq(Stations)]

Init ==
    /\ pool = <<>>
    /\ made = {}
    /\ live = [s \in Sess |-> FALSE]
    /\ cb = [s \in Sess |-> NoStation]
    /\ owed = [s \in Sess |-> {}]
    /\ got = [st \in Stations |-> <<>>]

(* Whatever else a step does, it may lose answers of its session. *)
OwesSome(s, callers) == \E some \in SUBSET callers : owed' = [owed EXCEPT ![s] = some]

Accept(s) ==
    /\ s \notin made
    /\ made' = made \cup {s}
    /\ pool' = Append(pool, s)
    /\ UNCHANGED <<live, cb, owed, got>>

(* A session authorises itself, or it fails; one that has been swept may do *)
(* so as well, since a handler of it may be queued already.                 *)
Turn(s, up) ==
    /\ s \in made
    /\ live' = [live EXCEPT ![s] = up]
    /\ OwesSome(s, owed[s])
    /\ UNCHANGED <<pool, made, cb, got>>

Sweep ==
    \E i \in DOMAIN pool :
        /\ ~ live[pool[i]]
        /\ \A j \in 1..(i - 1) : live[pool[j]]
        /\ pool' = RemoveAt(pool, i)
        /\ OwesSome(pool[i], owed[pool[i]])
        /\ UNCHANGED <<made, live, cb, got>>

StartCommand(s, st) ==
    /\ s \in Range(pool)
    /\ IF live[s]
       THEN /\ cb' = [cb EXCEPT ![s] = st]
            /\ OwesSome(s, owed[s] \cup {st})
       ELSE UNCHANGED <<cb, owed>>
    /\ UNCHANGED <<pool, made, live, got>>

(* The answer to st is given to whoever asked last. *)
Reply(s, st) ==
    /\ st \in owed[s] /\ cb[s] # NoStation
    /\ got' = [got EXCEPT ![cb[s]] = Append(@, st)]
    /\ OwesSome(s, owed[s] \ {st})
    /\ UNCHANGED <<pool, made, live, cb>>

Next ==
    \/ Sweep
    \/ \E s \in Sess :
        \/ Accept(s)
        \/ \E up \in BOOLEAN : Turn(s, up)
        \/ \E st \in Stations : StartCommand(s, st) \/ Reply(s, st)

Spec == Init /\ [][Next]_vars
=============================================================================
