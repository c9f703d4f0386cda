------------------------- MODULE MCCommandExecutor -------------------------
(***************************************************************************)
(* CommandExecutor with a small cache, and how long it remembers one       *)
(* transaction.  The other ids are interchangeable.                        *)
(***************************************************************************)
EXTENDS CommandExecutor

CONSTANT Watched   \* the transaction whose repetition is watched

VARIABLE since     \* history: new transactions since that of Watched

(* On the ground, with everything there and no bench motor test.           *)
MCContexts ==
  {[state |-> "command_receive", deployment_power_cutoff_done |-> FALSE,
    resources_preallocated |-> TRUE, fin_available |-> TRUE,
    parachute_available |-> TRUE, motor_test_busy |-> FALSE,
    calibration_supported |-> TRUE, storage_export_supported |-> TRUE,
    fin_safe_commands_supported |-> TRUE]}

Symmetric == Permutations(Ids \ {Watched})

(* since counts up to CacheSize, and starts there: Watched is unknown.     *)
New(id) == Find(cache, id) = {} /\ Find(cache', id) # {}
Count ==
  since' = CASE New(Watched) -> 0
             [] /\ \E id \in Ids \ {Watched} : New(id)
                /\ since < CacheSize -> since + 1
             [] OTHER -> since

MCInit == Init /\ since = CacheSize
MCNext == Next /\ Count
MCSpec == MCInit /\ [][MCNext]_<<execVars, since>>

-----------------------------------------------------------------------------
(* A repeated request is answered from the cache, unless this many new     *)
(* transactions came in between: pending entries, and those that finished  *)
(* late, take the room of one for each domain.                             *)
ReplayWindow ==
  CacheSize - Cardinality({DomainOf(command) : command \in Commands})
ReplayedWithinWindow ==
  [][New(Watched) => since >= ReplayWindow]_<<execVars, since>>

(* What the protocol promises (docs/04 5.1): the latest CacheSize results  *)
(* are replayed, and their requests not looked at again.                   *)
ReplayedWithinCache ==
  [][New(Watched) => since >= CacheSize]_<<execVars, since>>

=============================================================================
