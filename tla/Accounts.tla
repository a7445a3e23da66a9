------------------------------ MODULE Accounts ------------------------------
(***************************************************************************)
(* backend/src/routes/authRoutes.ts as the sign-in form of                 *)
(* frontend/src/app/page.tsx uses it: register and login each read the     *)
(* users table, await bcrypt, and then act on what they read.  A token is  *)
(* the signed user id; any process with the secret accepts it.             *)
(***************************************************************************)
CONSTANTS
    Client,      \* browsers, each with one form and one local storage
    Email,
    Password,
    None

ASSUME AccountsAssumption == None \notin [email: Email, password: Password]

VARIABLES
    users,      \* the rows of the users table, each with who inserted it
    form,       \* each form: its request in progress, or the last answer
    session     \* the credentials behind the token in local storage

accounts == <<users, form, session>>

Answers == {"created", "welcome", "taken", "denied", "lost"}
Claims == {"created", "denied"}   \* they say something of the credentials
Open == {"register", "hashing", "inserted", "login", "comparing"}

Cred == [email: Email, password: Password]
Row == [email: Email, password: Password, by: Client]
Form == [at: {"blank"} \cup (Answers \ Claims)]
        \cup [at: (Open \ {"comparing"}) \cup Claims, cred: Cred]
        \cup [at: {"comparing"}, cred: Cred, stored: Password]

Idle(c) == form[c].at \notin Open

AccountsInit ==
    /\ users = {}
    /\ form = [c \in Client |-> [at |-> "blank"]]
    /\ session = [c \in Client |-> None]

Rows(e) == {u \in users : u.email = e}

(* Mutant: the answer does not say whose it is. *)
Reply_Anonymous(c, kind) == [at |-> kind]

Reply(c, kind) ==
    IF kind \in Claims THEN [at |-> kind, cred |-> form[c].cred] ELSE [at |-> kind]

(* An answer arrives without a token, or with one, which the form stores. *)
Refuse(c, kind) ==
    /\ form' = [form EXCEPT ![c] = Reply(c, kind)]
    /\ UNCHANGED session
Admit(c, kind) ==
    /\ form' = [form EXCEPT ![c] = Reply(c, kind)]
    /\ session' = [session EXCEPT ![c] = form[c].cred]

(* The handler awaits its next statement, or bcrypt. *)
Await(c, stage) ==
    /\ form' = [form EXCEPT ![c].at = stage]
    /\ UNCHANGED session

-----------------------------------------------------------------------------
(* handleSubmit, in one of its two modes; the button is disabled meanwhile. *)
Submit(c) ==
    /\ Idle(c)
    /\ \E mode \in {"register", "login"}, cred \in Cred :
          form' = [form EXCEPT ![c] = [at |-> mode, cred |-> cred]]
    /\ UNCHANGED <<users, session>>

(* POST /register: 409 when the address is known; else bcrypt.hash, ... *)
RegisterRead(c) ==
    /\ form[c].at = "register"
    /\ \/ Rows(form[c].cred.email) # {} /\ Refuse(c, "taken")
       \/ Rows(form[c].cred.email) = {} /\ Await(c, "hashing")
    /\ UNCHANGED users

NewRow(c) ==
    [email |-> form[c].cred.email, password |-> form[c].cred.password,
     by |-> c]

(* Mutants: no unique index on the address, or an upsert. *)
InsertUser_NoIndex(c) ==
    users' = users \cup {NewRow(c)} /\ Await(c, "inserted")
InsertUser_Upsert(c) ==
    /\ users' = (users \ Rows(form[c].cred.email)) \cup {NewRow(c)}
    /\ Await(c, "inserted")

(* ... and the INSERT, which the unique index on the address may reject    *)
(* although nobody had the address a moment ago (23505, answered by 409).  *)
InsertUser(c) ==
    \/ /\ Rows(form[c].cred.email) = {}
       /\ users' = users \cup {NewRow(c)}
       /\ Await(c, "inserted")
    \/ /\ Rows(form[c].cred.email) # {}
       /\ Refuse(c, "taken")
       /\ UNCHANGED users

RegisterInsert(c) == form[c].at = "hashing" /\ InsertUser(c)

(* The account is there; the answer is still to reach the browser. *)
RegisterAnswer(c) ==
    /\ form[c].at = "inserted"
    /\ Admit(c, "created")
    /\ UNCHANGED users

(* POST /login: 401 for an unknown address; else bcrypt.compare, ... *)
LoginRead(c) ==
    /\ form[c].at = "login"
    /\ \/ Rows(form[c].cred.email) = {} /\ Refuse(c, "denied")
       \/ /\ \E u \in Rows(form[c].cred.email) :
                form' = [form EXCEPT ![c] =
                    [at |-> "comparing", cred |-> @.cred,
                     stored |-> u.password]]
          /\ UNCHANGED session
    /\ UNCHANGED users

(* Mutant: bcrypt.compare is not awaited, and a promise is true. *)
LoginCompare_NoAwait(c) ==
    /\ form[c].at = "comparing"
    /\ Admit(c, "welcome")
    /\ UNCHANGED users

(* ... and 401 again when the password is another one. *)
LoginCompare(c) ==
    /\ form[c].at = "comparing"
    /\ \/ form[c].cred.password = form[c].stored /\ Admit(c, "welcome")
       \/ form[c].cred.password # form[c].stored /\ Refuse(c, "denied")
    /\ UNCHANGED users

HandlerStep(c) ==
    \/ RegisterRead(c) \/ RegisterInsert(c) \/ RegisterAnswer(c)
    \/ LoginRead(c) \/ LoginCompare(c)
=============================================================================
