------------------------------- MODULE Caesar -------------------------------
(***************************************************************************)
(* passwordEncrypt of serverM.cpp: the password field of a credentials     *)
(* message, shifted character by character inside its alphabet.  A         *)
(* character is its alphabet and its place in it; what is in none of the   *)
(* three alphabets has the place it has among the rest and stays.          *)
(***************************************************************************)
EXTENDS Integers, Sequences

CONSTANTS Alphabets, \* uAlphabet, lAlphabet and numbers
          Length,    \* how many characters each has
          Shift,     \* shift, 3 in the code
          Rest,      \* places of the characters outside the alphabets
          Passwords  \* what M receives as third field

ASSUME AlphabetAssumption ==
  /\ Length \in [Alphabets -> Nat \ {0}]
  /\ Shift \in Nat /\ \A a \in Alphabets : Shift <= Length[a]
  /\ "rest" \notin Alphabets

Char == (UNION {{<<a, n>> : n \in 0 .. Length[a] - 1} : a \in Alphabets})
          \cup {<<"rest", r>> : r \in Rest}

ASSUME PasswordAssumption == Passwords \subseteq Seq(Char)

VARIABLES password,          \* of the message
          encryptedPassword, \* what has been appended so far
          rest               \* characters the for loop has not come to

caesarVars == <<password, encryptedPassword, rest>>

CaesarInit ==
  /\ password \in Passwords
  /\ encryptedPassword = <<>>
  /\ rest = password

Shifted(c) ==
  IF c[1] \in Alphabets THEN <<c[1], (c[2] + Shift) % Length[c[1]]>> ELSE c

(* Mutant of Encrypt: each code is put in front of the ones before it. *)
EncryptInFront ==
  /\ rest # <<>>
  /\ encryptedPassword' = <<Shifted(Head(rest))>> \o encryptedPassword
  /\ rest' = Tail(rest)
  /\ UNCHANGED password

Encrypt ==
  /\ rest # <<>>
  /\ encryptedPassword' = Append(encryptedPassword, Shifted(Head(rest)))
  /\ rest' = Tail(rest)
  /\ UNCHANGED password

CaesarSpec == CaesarInit /\ [][Encrypt]_caesarVars

----------------------------------------------------------------------------
(* The inverse, which no program computes. *)
Unshifted(c) ==
  IF c[1] \in Alphabets
    THEN <<c[1], (c[2] + Length[c[1]] - Shift) % Length[c[1]]>> ELSE c

(* Two passwords that differ are sent to Server A as codes that differ, so *)
(* that matchCredentials accepts one password and no other: what has been  *)
(* encrypted can be read back, wherever the alphabets wrap.                *)
CanBeReadBack ==
  /\ Len(encryptedPassword) + Len(rest) = Len(password)
  /\ \A k \in DOMAIN encryptedPassword :
       Unshifted(encryptedPassword[k]) = password[k]
=============================================================================
