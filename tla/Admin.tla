------------------------------- MODULE Admin -------------------------------
(***************************************************************************)
(* Who may run the game: the authority and its two-step handover           *)
(* (propose, accept, cancel), the operator slots (add_operator,            *)
(* remove_operator) and the pause.  None of these instructions is gated by *)
(* the pause.                                                              *)
(*                                                                         *)
(* A key is an address.  Nobody holds the private half of an address       *)
(* outside Controlled, such as one with a typing error in it.              *)
(***************************************************************************)
EXTENDS Integers, FiniteSets

CONSTANTS
  Keys,            \* addresses
  Controlled,      \* those somebody can sign with
  NoKey,           \* Pubkey::default()
  FirstAuthority,  \* the key that runs initialize_config
  MAX_OPERATORS    \* operator slots, 3 in the code

ASSUME KeysAssumption ==
  Controlled \subseteq Keys /\ NoKey \notin Keys /\ FirstAuthority \in Controlled
ASSUME SlotsAssumption == MAX_OPERATORS \in Nat

VARIABLES
  authority, pending_authority,  \* config.authority, config.pending_authority
  operators, operator_count,     \* config.operators, config.operator_count
  paused                         \* config.paused

adminVars == <<authority, pending_authority, operators, operator_count, paused>>

Slots == 1..MAX_OPERATORS

AdminInit ==
  /\ authority = FirstAuthority
  /\ pending_authority = NoKey
  /\ operators = [i \in Slots |-> NoKey]
  /\ operator_count = 0
  /\ paused = FALSE

Active == {operators[i] : i \in 1..operator_count}

is_operator_or_authority(signer) ==
  signer = authority \/ signer \in Active

-----------------------------------------------------------------------------
\* mutant: the proposed key need not sign, so that it is in charge at once.
handover_one_step(key) == authority' = key /\ pending_authority' = NoKey

handover(key) == pending_authority' = key /\ UNCHANGED authority

propose_authority_transfer(signer, key) ==
  /\ signer = authority
  /\ key # authority
  /\ handover(key)
  /\ UNCHANGED <<operators, operator_count, paused>>

accept_authority_transfer(signer) ==
  /\ pending_authority # NoKey
  /\ signer = pending_authority
  /\ authority' = signer
  /\ pending_authority' = NoKey
  /\ UNCHANGED <<operators, operator_count, paused>>

cancel_authority_transfer(signer) ==
  /\ signer = authority
  /\ pending_authority # NoKey
  /\ pending_authority' = NoKey
  /\ UNCHANGED <<authority, operators, operator_count, paused>>

\* mutant: nobody looks whether the key is an operator already.
addable_again(key) == key # authority /\ operator_count < MAX_OPERATORS

addable(key) ==
  key # authority /\ operator_count < MAX_OPERATORS /\ key \notin Active

add_operator(signer, key) ==
  /\ signer = authority
  /\ addable(key)
  /\ operators' = [operators EXCEPT ![operator_count + 1] = key]
  /\ operator_count' = operator_count + 1
  /\ UNCHANGED <<authority, pending_authority, paused>>

\* Everything after slot pos moves one to the left; the tail slot is cleared.
removed(pos) ==
  [i \in Slots |-> IF i < pos \/ i > operator_count THEN operators[i]
                   ELSE IF i = operator_count THEN NoKey
                   ELSE operators[i + 1]]

remove_operator(signer, key) ==
  /\ signer = authority
  /\ \E pos \in 1..operator_count :
       operators[pos] = key /\ operators' = removed(pos)
  /\ operator_count' = operator_count - 1
  /\ UNCHANGED <<authority, pending_authority, paused>>

set_paused(signer, b) ==
  /\ signer = authority
  /\ paused' = b
  /\ UNCHANGED <<authority, pending_authority, operators, operator_count>>

AdminNext ==
  \E signer \in Controlled :
    \/ \E key \in Keys :
         \/ propose_authority_transfer(signer, key)
         \/ add_operator(signer, key)
         \/ remove_operator(signer, key)
    \/ accept_authority_transfer(signer)
    \/ cancel_authority_transfer(signer)
    \/ \E b \in BOOLEAN : set_paused(signer, b)

AdminSpec == AdminInit /\ [][AdminNext]_adminVars

-----------------------------------------------------------------------------
(***************************************************************************)
(* Properties.                                                             *)
(***************************************************************************)
\* The game can always be administered: the authority is a key somebody can
\* sign with, whatever addresses were proposed (transfer_authority.rs: an
\* address that cannot sign can never receive control).
AuthorityCanSign == authority \in Controlled

\* The first operator_count slots, the only ones is_operator_or_authority
\* reads, hold distinct keys and the others are empty, through any sequence
\* of additions and removals: no operator is lost behind a gap, none keeps
\* its powers in a slot that removing it once leaves behind.
OperatorsPacked ==
  /\ operator_count \in 0..MAX_OPERATORS
  /\ \A i \in Slots : operators[i] # NoKey <=> i <= operator_count
  /\ \A i, j \in 1..operator_count : operators[i] = operators[j] => i = j
=============================================================================
