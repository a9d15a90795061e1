------------------------------ MODULE MCGates -------------------------------
(* Gates for two providers and every short target below a public path. *)
EXTENDS Gates

MCSettings ==
  [password : BOOLEAN, username : {TRUE}, email : BOOLEAN,
   magic : {"auto", "off", "code"}, confirm : {"auto", "link"},
   mailer : BOOLEAN, provider : {"auto", "fake", "resend"},
   complete : {{}, {"resend"}}, given : SUBSET Oauth,
   flows : {{}, {"username"}, {"email"}, {"facebook"}, {"google", "username"},
            {"magic_code"}, {"magic_link"}},
   required : {"unset", "yes", "no"}, allow : BOOLEAN, deny : BOOLEAN,
   tokens : {TRUE}]

MCPublic == {[path |-> <<"/", "lib", "/">>, prefix |-> TRUE],
             [path |-> <<"/", "ico">>, prefix |-> FALSE]}
MCOptional == {[path |-> <<"/", "opt", "/">>, prefix |-> TRUE]}

Words == {"x", "auth", "user", "forwarded", "for", "real", "ip"}
Tokens == {"/", "..", "%2e", "%2f", "%252f", ";", "#", "?", "\\"}
MCToken == Tokens \cup {"%", ".", "lib", "ico", "opt", "origin", "-", "_"} \cup Words
             \cup UNION {ToSet(h) : h \in ForwardedHeaders}
FewTokens == {"/", "..", ";", "%2e", "%2f", "%252f"}
Tails == UNION {[1..n -> Tokens] : n \in 0..2} \cup [1..3 -> FewTokens]
MCTargets ==
  {base \o suffix : base \in {<<"/", "lib", "/">>, <<"/", "ico">>}, suffix \in Tails}
    \cup {<<"/", "opt", "/", "x">>, <<"/", "x">>, <<"origin", "/", "ico">>,
          <<"/", "lib", "/", "%">>}
MCForged == {<<"/", "ico">>, <<"/", "opt", "/">>, <<"/", "x">>}

\* Every spelling of the headers Authwall keeps from the upstream, and names of
\* one word or three that may look like them.
MCHeaders ==
  UNION {{[i \in DOMAIN h |-> IF h[i] = "-" THEN s[i] ELSE h[i]] : s \in [DOMAIN h -> {"-", "_"}]} :
           h \in ForwardedHeaders}
    \cup {<<a>> : a \in Words}
    \cup {<<a, s, b, t, c>> : a, b, c \in Words, s, t \in {"-", "_"}}
=============================================================================
