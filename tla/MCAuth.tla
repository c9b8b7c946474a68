------------------------------- MODULE MCAuth -------------------------------
(***************************************************************************)
(* Two tabs of one browser: one makes two calls at once while the other    *)
(* makes one; both make one and the user signs in again; or the user signs *)
(* out, and perhaps in again, in the other tab.                            *)
(***************************************************************************)
EXTENDS AuthSession, TLC

CONSTANTS t1, t2, a, b

MCPlans ==
    { t1 :> {a, b} @@ t2 :> {a},
      t1 :> {a, "login"} @@ t2 :> {a},
      t1 :> {a} @@ t2 :> {"login", "logout"} }

=============================================================================
