----------------------------- MODULE MCAccounts -----------------------------
(* Two spellings of one address, one identity, one name for organisations. *)
EXTENDS Accounts, TLC

MCEmails == {"bob", "Bob"}
MCLower == [e \in MCEmails |-> "bob"]
MCSymmetry == Permutations(TenantIds) \cup Permutations(PairIds)
              \cup Permutations(Requests)
=============================================================================
