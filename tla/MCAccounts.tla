----------------------------- MODULE MCAccounts -----------------------------
(* Instances of Accounts for TLC. *)
EXTENDS Accounts, TLC

Nobody == [account |-> [u \in User |-> NoDoc], session |-> [s \in Sid |-> NoDoc]]

\* One user has an account, whoever it is.
Registered(verified) ==
  {[Nobody EXCEPT !.account[u] = [email |-> e, verified |-> verified, pw |-> p]] :
     u \in User, e \in Email, p \in Password}

\* And is signed in.
SignedIn ==
  {[Nobody EXCEPT !.account[u] = [email |-> e, verified |-> TRUE, pw |-> p],
                  !.session[s] = [user |-> u, email |-> e, pw |-> p, late |-> FALSE]] :
     u \in User, e \in Email, p \in Password, s \in Sid}

BootNew    == {Nobody} \cup SignedIn
BootEither == Registered(FALSE) \cup SignedIn

Alike == Permutations(Req) \cup Permutations(User) \cup Permutations(Password)
           \cup Permutations(Sid)
=============================================================================
