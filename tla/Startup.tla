------------------------------ MODULE Startup ------------------------------
(***************************************************************************)
(* What a start makes of the configuration file and the environment        *)
(* (main.rs up to the limiter, config.rs).  Settings are records of the    *)
(* file's and the environment's entries; "absent" is an entry that is not  *)
(* there, "empty" a variable that is set to nothing, "unparsable" a        *)
(* password_hash that is no hash.                                          *)
(***************************************************************************)
CONSTANTS
  Users,      \* user names, DefaultUser among them
  Secrets,    \* JWT secrets that are not the default one
  Passwords,  \* passwords
  Tokens,     \* static access tokens
  TooLong,    \* those of both that are longer than PASSWORD_MAX_LEN
  Settings    \* the settings the operator may choose from

DefaultUser   == "git"
DefaultSecret == "change-me-in-production"

\* fileHash is the password whose hash is in the file.
Setting ==
  [fileUser : Users \cup {"absent"}, envUser : Users \cup {"absent"},
   fileSecret : Secrets \cup {"absent"}, envSecret : Secrets \cup {"absent"},
   fileHash : Passwords \cup {"absent", "unparsable"}, envPassword : Passwords \cup {"absent", "empty"},
   fileToken : Tokens \cup {"absent"}, envToken : Tokens \cup {"absent", "empty"}]

ASSUME StartupAssumption ==
  /\ DefaultUser \in Users
  /\ DefaultSecret \notin Secrets
  /\ {"absent", "empty", "unparsable"} \cap (Users \cup Secrets \cup Passwords \cup Tokens) = {}
  /\ TooLong \subseteq Passwords \cup Tokens
  /\ Settings \subseteq Setting

\* AppConfig, as far as the model needs it; `password` is what password_hash verifies.
Config ==
  [user : Users, secret : Secrets \cup {DefaultSecret},
   password : Passwords \cup {"absent", "unparsable"}, token : Tokens \cup {"absent", "empty"}]

Or(entry, default) == IF entry = "absent" THEN default ELSE entry

\* AppConfig::load.  A variable reaches a field whose name is one word; in the name
\* of any other the separator "_" makes a nested key that no field has.
Load(s) ==
  [user     |-> Or(s.envUser, Or(s.fileUser, DefaultUser)),
   secret   |-> Or(s.fileSecret, DefaultSecret),
   password |-> s.fileHash,
   token    |-> s.fileToken]

\* GITOM_PASSWORD and GITOM_ACCESS_TOKEN are read apart from it.
WithPassword(c, s) == [c EXCEPT !.password = Or(s.envPassword, @)]
WithToken(c, s)    == [c EXCEPT !.token = Or(s.envToken, @)]

NoCredentialsUnchecked(c) == FALSE

NoCredentials(c) == c.password = "absent" /\ c.token = "absent"

\* The checks, in this order; the token of the environment comes after them.
Refused(s) ==
  \/ Load(s).secret = DefaultSecret
  \/ s.envPassword = "empty"
  \/ NoCredentials(WithPassword(Load(s), s))

Effective(s) == WithToken(WithPassword(Load(s), s), s)

\* What verify_credentials and authenticate_git have in common: an empty password or
\* token never passes, and against a hash that does not parse nothing verifies.
Matches(c, user, pw) ==
  /\ user = c.user
  /\ pw \in Passwords \cup Tokens
  /\ pw \in {c.token, c.password}

\* The login form; the length is checked before anything else.
VerifyCredentials(c, user, pw) == pw \notin TooLong /\ Matches(c, user, pw)

\* Basic credentials of a git client, whose length nobody checks.
AuthenticateGit(c, user, pw) == Matches(c, user, pw)

----------------------------------------------------------------------------
\* README.md:49-54 ("export GITOM_JWT_SECRET", "export GITOM_PASSWORD") and the error
\* messages at main.rs:78-80 and 101-104: a secret, and a password or an access token.
FollowsTheInstructions(s) ==
  /\ s.fileSecret # "absent" \/ s.envSecret # "absent"
  /\ s.envPassword \in Passwords \/ (s.envPassword = "absent" /\ s.envToken \in Tokens)
============================================================================
