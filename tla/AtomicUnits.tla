----------------------------- MODULE AtomicUnits -----------------------------
(***************************************************************************)
(* What BlockchainDB.transaction(handler) promises its callers (spec      *)
(* sections 3 and 5): a unit of work stages account writes and store      *)
(* records that nobody else sees persisted, and then either commits, so   *)
(* that its staged writes and records persist together in one step, or    *)
(* discards them, leaving the persisted state as it was.  A persisted     *)
(* account holds the unit that last committed a write to it.             *)
(***************************************************************************)
CONSTANTS
    Units,
    Accts,
    NoAccount,
    GLOBAL_CONTRACT_ADDRESS,
    GenesisAccount

VARIABLES
    state,      \* persisted accounts
    records,    \* units whose store records are persisted
    staged,     \* per unit: accounts written and not yet committed
    batched     \* units with a store record not yet committed

auVars == <<state, records, staged, batched>>

Empty == [a \in Accts |-> NoAccount]

Init ==
    /\ state = Empty
    /\ records = {}
    /\ staged = [u \in Units |-> {}]
    /\ batched = {}

\* The genesis state is installed once, into an empty state.
Genesis ==
    /\ state = Empty
    /\ state' = [state EXCEPT ![GLOBAL_CONTRACT_ADDRESS] = GenesisAccount]
    /\ UNCHANGED <<records, staged, batched>>

\* Unit u writes account a, with or without a store record.
Stage(u, a, withRecord) ==
    /\ staged' = [staged EXCEPT ![u] = @ \cup {a}]
    /\ batched' = IF withRecord THEN batched \cup {u} ELSE batched
    /\ UNCHANGED <<state, records>>

\* Unit u commits: its writes and its record persist together.
CommitUnit(u) ==
    /\ state' = [a \in Accts |-> IF a \in staged[u] THEN u ELSE state[a]]
    /\ records' = records \cup (batched \cap {u})
    /\ staged' = [staged EXCEPT ![u] = {}]
    /\ batched' = batched \ {u}

\* Unit u aborts: nothing it staged persists.
Discard(u) ==
    /\ staged' = [staged EXCEPT ![u] = {}]
    /\ batched' = batched \ {u}
    /\ UNCHANGED <<state, records>>

Next ==
    \/ Genesis
    \/ \E u \in Units :
          \/ CommitUnit(u)
          \/ Discard(u)
          \/ \E a \in Accts, r \in BOOLEAN : Stage(u, a, r)

Spec == Init /\ [][Next]_auVars
=============================================================================
