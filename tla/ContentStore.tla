---------------------------- MODULE ContentStore ----------------------------
(***************************************************************************)
(* What the content-addressed remote cache promises, with no shells,       *)
(* temporaries, chunks or processes: an address, once filled, stays        *)
(* filled; it is filled in one step, with the content it names; a caller   *)
(* gets either a failure or what the store holds under the address it      *)
(* asked for.  The exception the code makes is explicit: an address that   *)
(* has become suspect may be filled with anything.                         *)
(***************************************************************************)
CONSTANTS Clients, Contents, None

VARIABLES
    want,     \* the address each caller asked for, None before it asks
    answer,   \* "waiting", "done" or "failed"
    ran,      \* the content each caller executed, if it executed any
    cache,    \* address -> content
    suspect   \* addresses the store no longer vouches for

storeVars == <<want, answer, ran, cache, suspect>>

StoreInit ==
    /\ want = [c \in Clients |-> None]
    /\ answer = [c \in Clients |-> "waiting"]
    /\ ran = [c \in Clients |-> None]
    /\ cache = [h \in Contents |-> None]
    /\ suspect = {}

Ask(c, h) ==
    /\ want[c] = None
    /\ answer[c] = "waiting"
    /\ want' = [want EXCEPT ![c] = h]
    /\ UNCHANGED <<answer, ran, cache, suspect>>

\* Only an address somebody asked for is ever filled.
Fill(h, content) ==
    /\ \E c \in Clients : want[c] = h
    /\ content = h \/ h \in suspect
    /\ cache' = [cache EXCEPT ![h] = content]
    /\ UNCHANGED <<want, answer, ran, suspect>>

\* A caller is answered only from a filled address.
Done(c) ==
    /\ answer[c] = "waiting"
    /\ want[c] # None
    /\ cache[want[c]] # None
    /\ answer' = [answer EXCEPT ![c] = "done"]
    /\ ran' \in {ran, [ran EXCEPT ![c] = cache[want[c]]]}
    /\ UNCHANGED <<want, cache, suspect>>

\* A failed caller may leave its address suspect.
Fail(c) ==
    /\ answer[c] = "waiting"
    /\ answer' = [answer EXCEPT ![c] = "failed"]
    /\ suspect' \in {suspect, suspect \cup {want[c]}}
    /\ UNCHANGED <<want, ran, cache>>

\* Only addresses somebody asked for become suspect.
Doubt(H) ==
    /\ \A h \in H : \E c \in Clients : want[c] = h
    /\ suspect' = suspect \cup H
    /\ UNCHANGED <<want, answer, ran, cache>>

StoreNext ==
    \/ \E c \in Clients : Done(c) \/ Fail(c) \/ \E h \in Contents : Ask(c, h)
    \/ \E h \in Contents : \E content \in Contents : Fill(h, content)
    \/ \E H \in SUBSET Contents : Doubt(H)

StoreSpec == StoreInit /\ [][StoreNext]_storeVars
=============================================================================
