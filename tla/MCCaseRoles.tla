----------------------------- MODULE MCCaseRoles -----------------------------
(* Small instances of CaseRoles for TLC. *)
EXTENDS CaseRoles, TLC

\* An executor and a resolver, or two executors.
Pairs == {T \in SUBSET (Worker \cup Resolver) :
             Cardinality(T) = 2 /\ T \cap Worker # {}}
Both == {{w, r} : w \in Worker, r \in Resolver}

\* Cases are interchangeable before they begin, executors and resolvers always.
Interchangeable ==
    Permutations(Case) \cup Permutations(Worker) \cup Permutations(Resolver)
=============================================================================
