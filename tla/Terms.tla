-------------------------------- MODULE Terms --------------------------------
(***************************************************************************)
(* What the leaders of one term do with the term: term.rs over the          *)
(* elections of Election.  A certificate of the election installs a reign,  *)
(* a reign stamps decrees and commits decrees of its term, and it ends when *)
(* its holder hears of a higher term.                                       *)
(*                                                                         *)
(* The types compare terms and nothing else: a decree is committed by       *)
(* whoever holds it and a reign of its term, its author's or another's.     *)
(* Each leader stamps one decree.                                           *)
(***************************************************************************)
EXTENDS Election

VARIABLES
  reign,      \* reign[c]: what c's Reign of the term has become
  decree,     \* decree[c]: c's decree; "left" when its author stepped down first
  committed   \* the decrees committed: by whom, under whose reign, left over or not

termVars == <<reign, decree, committed>>

TermsInit ==
  /\ Init
  /\ reign = [c \in Candidates |-> "none"]
  /\ decree = [c \in Candidates |-> "none"]
  /\ committed = {}

-----------------------------------------------------------------------------
\* Mutants: nobody asks for the certificate; a leader installs itself again.
ByAnyone(c)   == reign[c] = "none"
OnceMore(c)   == reign[c] # "reigning" /\ \E s \in elected : s.leader = c

\* The trusted root of Reign::install: an election certificate, used once.
ByCertificate(c) == reign[c] = "none" /\ \E s \in elected : s.leader = c

\* Reign::install.
Install(c) ==
  /\ ByCertificate(c)
  /\ reign' = [reign EXCEPT ![c] = "reigning"]
  /\ UNCHANGED <<vars, decree, committed>>

\* Reign::decree.
Stamp(c) ==
  /\ reign[c] = "reigning" /\ decree[c] = "none"
  /\ decree' = [decree EXCEPT ![c] = "open"]
  /\ UNCHANGED <<vars, reign, committed>>

\* Reign::superseded_by: the reign is consumed, what it stamped is left over.
SupersededBy(c) ==
  /\ reign[c] = "reigning"
  /\ reign' = [reign EXCEPT ![c] = "deposed"]
  /\ decree' = [decree EXCEPT ![c] = IF @ = "open" THEN "left" ELSE @]
  /\ UNCHANGED <<vars, committed>>

\* Decree::commit, by a holder of any reign of the term: the decree is consumed.
Commit(by, under) ==
  /\ decree[by] \in {"open", "left"} /\ reign[under] = "reigning"
  /\ committed' = committed \cup {[by |-> by, under |-> under, late |-> decree[by] = "left"]}
  /\ decree' = [decree EXCEPT ![by] = "committed"]
  /\ UNCHANGED <<vars, reign>>

TermsNext ==
  \/ Next /\ UNCHANGED termVars
  \/ \E c \in Candidates : Install(c) \/ Stamp(c) \/ SupersededBy(c)
                               \/ \E d \in Candidates : Commit(d, c)

TermsSpec == TermsInit /\ [][TermsNext]_<<vars, termVars>>

-----------------------------------------------------------------------------
\* commit (term.rs:149-156) with install's seam (term.rs:122-127): a decree is committed
\* by its own author before it steps down, and a leftover never; except between leaders
\* of electorates that do not follow one another, whose reigns the types cannot tell
\* apart.
LeftoversStayUncommitted ==
  \A d \in committed :
    /\ \E s \in elected : s.leader = d.by
    /\ d.late \/ d.by # d.under =>
         \A s, t \in elected :
           s.leader = d.by /\ t.leader = d.under => ~ Adjacent(s.at, t.at)
=============================================================================
