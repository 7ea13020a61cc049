------------------------------- MODULE Lookup -------------------------------
(***************************************************************************)
(* What resolve() promises a program that calls it, whatever happens to    *)
(* datagrams: the address it returns is one that the name server has       *)
(* chosen for this program, this host and this query number, or it returns *)
(* none.                                                                   *)
(***************************************************************************)
CONSTANTS Resolver, Host, Id, Name, NULL

VARIABLES
    asking,     \* the lookup each program waits for: its host and number
    given,      \* choices the name server has made so far
    result      \* what the last lookup of each program gave

lookupVars == <<asking, given, result>>

LookupInit ==
    /\ asking = [p \in Resolver |-> NULL]
    /\ given = {}
    /\ result = [p \in Resolver |-> NULL]

Begin(p, h, i) ==
    /\ asking[p] = NULL
    /\ asking' = [asking EXCEPT ![p] = [host |-> h, id |-> i]]
    /\ UNCHANGED <<given, result>>

Choose(p, h, i, a) ==
    /\ given' = given \cup {[p |-> p, host |-> h, id |-> i, addr |-> a]}
    /\ UNCHANGED <<asking, result>>

Return(p, a) ==
    /\ asking[p] # NULL
    /\ a # NULL => [p |-> p, host |-> asking[p].host, id |-> asking[p].id, addr |-> a] \in given
    /\ asking' = [asking EXCEPT ![p] = NULL]
    /\ result' = [result EXCEPT ![p] = a]
    /\ UNCHANGED given

LookupNext ==
    \E p \in Resolver :
       \/ \E h \in Host, i \in Id : Begin(p, h, i) \/ \E a \in Name : Choose(p, h, i, a)
       \/ \E a \in Name \cup {NULL} : Return(p, a)

LookupSpec == LookupInit /\ [][LookupNext]_lookupVars
=============================================================================
