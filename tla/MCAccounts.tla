----------------------------- MODULE MCAccounts -----------------------------
(***************************************************************************)
(* What a customer has beside money, for TLC: keys that are made, changed  *)
(* and rotated at once (Credentials as it is); the same beside an          *)
(* administration and a subscription that lapses; apps; the members of an  *)
(* organisation, an account that is made, and a subscription.  They share  *)
(* no state, so a behaviour is about one of them: part says which and      *)
(* never changes, the variables of Credentials stay as they begin and      *)
(* those of the others are at rest.                                        *)
(***************************************************************************)
EXTENDS Credentials, TLC

CONSTANTS Parts, c1, c2, c3, u1, u2, none

VARIABLES part,
  clock, keys, calls,
  blocked, plan, client, bearers, heard,                 (* Console and Apps *)
  member, inv, org,                                      (* Team             *)
  ch, noted, account, gifted, related, bonus, faults,    (* Signup           *)
  cash, subs, req, op                                    (* Subscription     *)

allVars ==
  <<vars, part, clock, keys, calls, blocked, plan, client, bearers, heard, member, inv, org,
    ch, noted, account, gifted, related, bonus, faults, cash, subs, req, op>>

Symmetry == Permutations({c1, c2, c3}) \cup Permutations({u1, u2})
-----------------------------------------------------------------------------
(* Console and Apps.  A subscription that lapses and is renewed, and an         *)
(* administrator who bars and readmits; then an app whose secret is rotated.  *)
Console ==
  INSTANCE Credentials WITH Calls <- {c1, c2}, Kinds <- {"create", "patch", "revoke", "rotate"},
    AdminMay <- {"disable", "enable"}, Limits <- {1, 2}, Ends <- {1},
    Asks <- {[limit |-> 2, end |-> -1]}, TokenLife <- 1, MaxKeys <- 2, MaxSubs <- 2,
    MaxSecrets <- 1, MaxNow <- 1, now <- clock, banned <- blocked,
    sub <- plan, key <- keys, app <- client, tokens <- bearers, call <- calls, told <- heard
Apps ==
  INSTANCE Credentials WITH Calls <- {c1, c2, c3}, Kinds <- {"disable", "secret"},
    AdminMay <- {}, Limits <- {1}, Ends <- {}, Asks <- {}, TokenLife <- 2, MaxKeys <- 1,
    MaxSubs <- 1, MaxSecrets <- 3, MaxNow <- 3, now <- clock, banned <- blocked,
    sub <- plan, key <- keys, app <- client, tokens <- bearers, call <- calls, told <- heard

(* Team.  Two users, three invitations, and a plan of two or three seats.  *)
Organisation ==
  INSTANCE Team WITH Users <- {u1, u2}, Invitations <- {"i1", "i2", "i3"},
    Calls <- {c1, c2, c3}, Seats <- 2, MaxSeats <- 3, MaxRows <- 2,
    sub <- org, call <- calls

(* Signup.  Three requests for one address, two codes at a time, one try   *)
(* for each.                                                               *)
Registration ==
  INSTANCE Signup WITH Calls <- {c1, c2, c3}, Ids <- {u1, u2}, MaxTries <- 1,
    MaxFaults <- 1, call <- calls

(* Subscription.  Two plans, three transactions, two requests.             *)
ByPlan(small, large) == [p \in {"small", "large"} |-> IF p = "small" THEN small ELSE large]
Subscribing ==
  INSTANCE Subscription WITH Plans <- {"small", "large"}, Price <- ByPlan(4, 8),
    Quota <- ByPlan(1, 3), Rank <- ByPlan(1, 2), PackPrice <- 3, PackQuota <- 2, Period <- 1,
    Ops <- {c1, c2, c3}, Kinds <- {"purchase", "renew", "change", "cancel", "pack"},
    Keys <- {"k1"}, Requests <- {u1, u2}, Amount <- 1, Cash <- 16, MaxSubs <- 3, MaxNow <- 2,
    now <- clock, key <- keys

Asked == {[limit |-> 2, end |-> Keep]}

ASSUME /\ Console!CredentialsAssumption /\ Apps!CredentialsAssumption
       /\ Organisation!TeamAssumption /\ Registration!SignupAssumption
       /\ Subscribing!SubscriptionAssumption
-----------------------------------------------------------------------------
Owners == {"console", "apps"}

AtRest ==
  /\ part \notin Owners \cup {"subscription"} => clock = none /\ keys = none
  /\ part \notin Owners \cup {"team", "signup"} => calls = none
  /\ part \notin Owners =>
       /\ blocked = none /\ plan = none /\ client = none /\ bearers = none /\ heard = none
  /\ part # "team" => member = none /\ inv = none /\ org = none
  /\ part # "signup" =>
       /\ ch = none /\ noted = none /\ account = none /\ gifted = none /\ related = none
       /\ bonus = none /\ faults = none
  /\ part # "subscription" => cash = none /\ subs = none /\ req = none /\ op = none

Kept ==
  /\ part # "keys" => UNCHANGED vars
  /\ part \notin Owners \cup {"subscription"} => UNCHANGED <<clock, keys>>
  /\ part \notin Owners \cup {"team", "signup"} => UNCHANGED calls
  /\ part \notin Owners => UNCHANGED <<blocked, plan, client, bearers, heard>>
  /\ part # "team" => UNCHANGED <<member, inv, org>>
  /\ part # "signup" => UNCHANGED <<ch, noted, account, gifted, related, bonus, faults>>
  /\ part # "subscription" => UNCHANGED <<cash, subs, req, op>>

MCInit ==
  /\ part \in Parts /\ Init
  /\ \/ part = "keys"
     \/ part = "console" /\ Console!Init
     \/ part = "apps" /\ Apps!Init
     \/ part = "team" /\ Organisation!Init
     \/ part = "signup" /\ Registration!Init
     \/ part = "subscription" /\ Subscribing!Init
  /\ AtRest

(* All but sign-ups come to an end: time and rows are bounded.             *)
Ended == part # "signup" /\ UNCHANGED allVars

MCNext ==
  \/ /\ \/ part = "keys" /\ Next
        \/ part = "console" /\ Console!Next
        \/ part = "apps" /\ Apps!Next
        \/ part = "team" /\ Organisation!Next
        \/ part = "signup" /\ Registration!Next
        \/ part = "subscription" /\ Subscribing!Next
     /\ UNCHANGED part /\ Kept
  \/ Ended

MCSpec == MCInit /\ [][MCNext]_allVars
-----------------------------------------------------------------------------
(* What is over lets nobody in: a key or a secret whose owner was told so, *)
(* an invitation that was used or taken back; and there are no more        *)
(* members than seats.                                                     *)
OverIsOver ==
  /\ part = "console" => Console!TypeOK /\ Console!RevocationEndsLineage /\ Console!ToldIsOver
  /\ part = "apps" => Apps!TypeOK /\ Apps!ToldIsOver
  /\ part = "team" => Organisation!TypeOK /\ Organisation!MembersFitSeats

(* Nobody joins an organisation but through an open invitation of his own, *)
(* which is used up by it.                                                 *)
JoinedByInvitation ==
  [][part = "team" => Organisation!InvitationSettled /\ Organisation!InvitedJoins]_allVars

(* What an account is given it has once: gifts and rewards for both sides  *)
(* with the account, one subscription in force, which holds what its       *)
(* requests hold and is paid for what is used of it.                       *)
GivenOnce ==
  /\ part = "signup" =>
       Registration!TypeOK /\ Registration!RewardedTogether /\ Registration!GiftsAccounted
  /\ part = "subscription" =>
       /\ Subscribing!TypeOK /\ Subscribing!HeldByRequests /\ Subscribing!OneActive
       /\ Subscribing!NothingPaidTwice
=============================================================================
