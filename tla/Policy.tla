------------------------------- MODULE Policy -------------------------------
(***************************************************************************)
(* What the daemon lets a connection write: the rules of the policy file   *)
(* and the partitions of the configuration.  A line of the file is its     *)
(* rule, or the name of what is wrong with it.                             *)
(***************************************************************************)
EXTENDS Naturals, Sequences, FiniteSets

CONSTANTS
  PolicyFile,   \* the lines of the policy file
  Partitions,   \* partitions a client may name
  Whitelist,    \* the partitions of the configuration; empty: any
  MaxRules,     \* IRT_POLICY_MAX_RULES
  Any           \* "*" as the partition of a rule

Rule == [uid : Nat, partition : Partitions \cup {Any}, first : Nat, last : Nat]
Line == [kind : {"rule", "blank", "too long", "not four fields", "not a number"}, rule : Rule]

ASSUME PolicyValues ==
  /\ PolicyFile \in Seq(Line)
  /\ Whitelist \subseteq Partitions /\ 0 \in Partitions /\ MaxRules \in Nat

-----------------------------------------------------------------------------
(* irt_policy_load stops at the first line that is wrong by itself, turns    *)
(* its range around, or comes after the table is full.                       *)
RuleLines(n) == {i \in 1 .. n : PolicyFile[i].kind = "rule"}

Wrong(i) ==
  \/ PolicyFile[i].kind \notin {"rule", "blank"}
  \/ /\ i \in RuleLines(i)
     /\ \/ PolicyFile[i].rule.first > PolicyFile[i].rule.last
        \/ Cardinality(RuleLines(i)) > MaxRules

PolicyLoads == \A i \in 1 .. Len(PolicyFile) : ~ Wrong(i)
Rules == {PolicyFile[i].rule : i \in RuleLines(Len(PolicyFile))}

(* irt_policy_allows: deny by default. *)
Allows(uid, q, p) ==
  \E r \in Rules : /\ r.uid = uid /\ r.partition \in {q, Any}
                   /\ r.first <= p /\ p <= r.last

(* rtdbd_conf_partition_allowed. *)
PartitionAllowed(q) == Whitelist = {} \/ q \in Whitelist

=============================================================================
