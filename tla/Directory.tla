----------------------------- MODULE Directory -----------------------------
(***************************************************************************)
(* What registering and signing in promise: a request acts on the accounts *)
(* in one step, an answer is true at the moment it is given, and a request *)
(* whose answer is lost has acted or not.  No hash, no look before the     *)
(* write, no process appears here.                                         *)
(***************************************************************************)
CONSTANTS Client, Email, Password, None

VARIABLES
    users,      \* the accounts, each with who registered it
    request,    \* what each browser has asked, or was told last
    session     \* the credentials each browser was last admitted with

vars == <<users, request, session>>

Cred == [email: Email, password: Password]
Open(c) == request[c].at \in {"register", "inserted", "login"}
Cr(c) == request[c].cred

Known(c) == \E u \in users : u.email = Cr(c).email
Held(c) ==
    \E u \in users : u.email = Cr(c).email /\ u.password = Cr(c).password

Answer(c, kind) == request' = [request EXCEPT ![c] = [at |-> kind]]

Init ==
    /\ users = {}
    /\ request = [c \in Client |-> [at |-> "blank"]]
    /\ session = [c \in Client |-> None]

Ask(c) ==
    /\ ~Open(c)
    /\ UNCHANGED <<users, session>>
    /\ \E at \in {"register", "login"}, cred \in Cred :
          request' = [request EXCEPT ![c] = [at |-> at, cred |-> cred]]

(* An address is given to the first who registers it. *)
Register(c) ==
    /\ request[c].at = "register" /\ ~Known(c)
    /\ users' = users \cup {[email |-> Cr(c).email,
                             password |-> Cr(c).password, by |-> c]}
    /\ request' = [request EXCEPT ![c] = [at |-> "inserted", cred |-> Cr(c)]]
    /\ UNCHANGED session

Admit(c) ==
    /\ \/ request[c].at = "inserted" /\ Answer(c, "created")
       \/ request[c].at = "login" /\ Held(c) /\ Answer(c, "welcome")
    /\ session' = [session EXCEPT ![c] = Cr(c)]
    /\ UNCHANGED users

Refuse(c) ==
    /\ \/ request[c].at = "register" /\ Known(c) /\ Answer(c, "taken")
       \/ request[c].at = "login" /\ ~Held(c) /\ Answer(c, "denied")
    /\ UNCHANGED <<users, session>>

(* Any requests get no answer; what they have done stays. *)
Lose ==
    /\ \E C \in SUBSET {c \in Client : Open(c)} :
          request' = [c \in Client |->
                         IF c \in C THEN [at |-> "lost"] ELSE request[c]]
    /\ UNCHANGED <<users, session>>

Next ==
    \/ \E c \in Client : Ask(c) \/ Register(c) \/ Admit(c) \/ Refuse(c)
    \/ Lose

Spec == Init /\ [][Next]_vars
=============================================================================
