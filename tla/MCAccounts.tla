----------------------------- MODULE MCAccounts -----------------------------
(* One user, with the parts of his account explored one or two at a time,    *)
(* each as far as it is interesting.                                         *)
EXTENDS Accounts, TLC

MCBound(purpose, codes, sessions, revocations, pins) ==
    [purpose |-> purpose, code |-> codes, session |-> sessions,
     revocation |-> revocations, pin |-> pins]

MCBounds == {MCBound({"PASSWORD_RESET"}, 2, 0, 1, 0),
             MCBound({"PASSWORD_RESET"}, 1, 1, 1, 0),
             MCBound({"EMAIL_VERIFICATION"}, 1, 1, 0, 0),
             MCBound({"EMAIL_VERIFICATION"}, 3, 0, 0, 0),
             MCBound({"PIN_RESET"}, 1, 0, 0, 3),
             MCBound({}, 0, 4, 0, 0),
             MCBound({}, 0, 3, 2, 0)}

CallSymmetry == Permutations(Call)
=============================================================================
