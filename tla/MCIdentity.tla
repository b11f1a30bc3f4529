------------------------------ MODULE MCIdentity ------------------------------
(* An instance of Identity: a registrar and a user whom one CA knows.       *)
EXTENDS Identity

\* Enrolments and what changes a user, and of what changes nothing some of
\* each kind, one that lacks its ID among them.
MCInputs ==
  {"enroll", "reenroll", "sign"} \X Users \X {""}
    \cup {"register", "create", "revoke", "remove", "modify"} \X {"u"} \X {""}
    \cup {<<"enroll", "", "">>, <<"get", "", "ca1">>, <<"getAll", "", "">>,
          <<"addAffiliation", "u", "">>, <<"modifyAffiliation", "", "">>, <<"cainfo", "", "">>}
===============================================================================
