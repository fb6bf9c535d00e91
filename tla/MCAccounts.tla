----------------------------- MODULE MCAccounts -----------------------------
(* Instance of Accounts for TLC. *)
EXTENDS Accounts, TLC

\* An address that needs normalising, its accented twin, which the collation
\* takes for the same, and another one; two spellings of a name, another name
\* and one that is too short.
MCRawEmails == {" Eve@x.io", "e've@x.io", "bob@x.io"}
MCEmails == {"eve@x.io", "e've@x.io", "bob@x.io"}
MCLowerTrim == [e \in MCRawEmails |-> IF e = " Eve@x.io" THEN "eve@x.io" ELSE e]
MCRawNames == {"eve ", "Eve", "bob", "x"}
MCNames == {"eve", "Eve", "bob"}
MCTrim == [n \in MCRawNames |-> IF n = "eve " THEN "eve" ELSE n]
MCCollate ==
  [x \in MCRawEmails \cup MCEmails \cup MCNames |->
     CASE x = "e've@x.io" -> "eve@x.io"
       [] x = "Eve" -> "eve"
       [] OTHER -> x]

Symmetry == Permutations(Reqs)

=============================================================================
