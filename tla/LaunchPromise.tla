--------------------------- MODULE LaunchPromise ---------------------------
(***************************************************************************)
(* What the publisher promises the owner of a launch about the account at  *)
(* the advertising provider: it grows parent first, one object of a kind;  *)
(* money is asked to be spent once, on a whole draft; and while the owner  *)
(* is shown a draft that is ready, a launch that runs or a cancelled one,  *)
(* nothing is asked for behind the owner's back.                           *)
(***************************************************************************)
CONSTANTS Identities

VARIABLES
    asked,    \* what the provider was asked for
    account,  \* account[k]: the objects of kind k the provider holds
    shown     \* what the owner is told: "open" where it promises nothing yet

promise == <<asked, account, shown>>

Objects == {"campaign", "adset", "ad"}

\* What is held already when something is asked for.
Needs == [campaign |-> {}, adset |-> {"campaign"}, ad |-> {"campaign", "adset"},
          publish |-> Objects]

Holds(k) == account[k] # {}

Blank ==
    /\ asked = {}
    /\ account = [k \in Objects |-> {}]
    /\ shown = "open"

Ask(r) ==
    /\ r \notin asked
    /\ \A k \in Needs[r] : Holds(k)
    /\ shown = "open"
    /\ asked' = asked \cup {r}
    /\ UNCHANGED <<account, shown>>

Arrive(k) ==
    /\ k \in asked /\ ~Holds(k)
    /\ \E id \in Identities : account' = [account EXCEPT ![k] = {id}]
    /\ UNCHANGED <<asked, shown>>

\* A launch is ready once it is whole and unpublished; a cancellation is the last that is shown.
Show(what) ==
    /\ shown # "cancelled"
    /\ what = "ready" => "publish" \notin asked /\ \A k \in Objects : Holds(k)
    /\ what = "live" => "publish" \in asked
    /\ what = "cancelled" => asked = {}
    /\ shown' = what
    /\ UNCHANGED <<asked, account>>

PromiseNext ==
    \/ \E r \in Objects \cup {"publish"} : Ask(r)
    \/ \E k \in Objects : Arrive(k)
    \/ \E what \in {"open", "ready", "live", "cancelled"} : Show(what)

PromiseSpec == Blank /\ [][PromiseNext]_promise
=============================================================================
