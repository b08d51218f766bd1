---------------------------- MODULE MCLoginSessions ----------------------------
(* Small instance of LoginSessions for TLC. *)
EXTENDS LoginSessions

T == INSTANCE TLC

Member == [NoAccount EXCEPT !.id = 1, !.active = TRUE]
\* Nobody yet, so that a login or an administrator may make a plain member; an
\* administrator who has a second factor and signs in through Lark too; the
\* protected account without a second factor; an account of the OIDC provider,
\* active or disabled.
Accounts == {NoAccount,
             BindLarkIdentity([Member EXCEPT !.admin = TRUE, !.secret = 1, !.mfa = TRUE]),
             [Member EXCEPT !.protected = TRUE],
             BindExternalIdentity(Member),
             BindExternalIdentity([Member EXCEPT !.active = FALSE])}

CONSTANTS r1, r2
TwoRequests == {r1, r2}
Symmetric == T!Permutations({r1, r2})
=============================================================================
