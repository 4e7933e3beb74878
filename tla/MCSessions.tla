------------------------------ MODULE MCSessions ------------------------------
(***************************************************************************)
(* Small instances of Sessions: account a has a session k from the start,  *)
(* account b has none.  Tokens of logins are the requests themselves.      *)
(***************************************************************************)
EXTENDS Sessions, TLC

CONSTANTS r1, r2, r3, k, a, b, old, new

Requests == {r1, r2, r3}
Symmetry == Permutations(Requests)

Row(fresh) == [status |-> "active", hash |-> [of |-> old, fresh |-> fresh], name |-> old]

Owner == (k :> a)

Asks(op, account, password) ==
    [op |-> op, account |-> account, password |-> password, new |-> new, name |-> new]

-----------------------------------------------------------------------------
\* One account: renewals, a logout and logins past the lifetime of a session.
RenewAccounts == (a :> Row(TRUE))
RenewOffers ==
    {Asks("me", a, old), Asks("logout", a, old), Asks("login", a, old)}

\* Two accounts, one without a session and so one that can be deleted.
PasswordAccounts == (a :> Row(TRUE)) @@ (b :> Row(TRUE))
PasswordOffers ==
    {Asks("password", a, old), Asks("profile", a, old), Asks("login", a, old),
     Asks("login", b, old)}

\* An account with an outdated hash.
OutdatedAccount == (a :> Row(FALSE))

\* Logins that rehash next to password changes and profile updates.
RehashOffers ==
    {Asks("login", a, old), Asks("password", a, old), Asks("profile", a, old)}
=============================================================================
