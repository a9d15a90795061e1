-------------------------------- MODULE Gates -------------------------------
(***************************************************************************)
(* What a request meets in a process once it runs: the configuration that  *)
(* was resolved, the judgement of its target, the sign-in that gave it its *)
(* session, and the answer of each of the three doors, the proxy, the      *)
(* sidecar and the WebSocket upgrade.  Nothing interleaves here: Doors is  *)
(* about requests that overlap.                                            *)
(***************************************************************************)
EXTENDS Settings, RequestPath

CONSTANTS
  Settings,  \* what may be set
  Targets,   \* request targets
  Forged,    \* targets a client names to the sidecar
  Headers    \* header names, words and separators in turn

ASSUME GatesAssumption ==
  /\ Settings \subseteq Setting
  /\ Targets \subseteq Seq(Token)
  /\ Headers \subseteq Seq(Token)

VARIABLES
  stage,    \* "boot", "exited", "up", "arrived", "judged" or "in"
  config,   \* what the process runs with
  target,   \* of the request, until it is judged
  class,    \* of its path: "bad" for a target that is refused
  told,     \* of the path the sidecar is told of
  session   \* whom its credentials are of

gatesVars == <<stage, config, target, class, told, session>>

\* An account's addresses, as far as the doors ask: "none" is verified, or
\* one the rules would deny, or all pass; whether one was proven by a sign-in
\* under this configuration, and which flow it came by.
Verified == {"none", "passing", "denied"}
Session == [via : Flow \cup {"older"}, verified : Verified, proven : BOOLEAN]
Nobody == [via |-> "nobody", verified |-> "none", proven |-> FALSE]

\* Authorization: absent, not a bearer's, of an unknown token, or of the
\* account's; whether the session cookie is there and signed; whether the
\* Origin of an upgrade is the process's own.
Credentials ==
  [authorization : {"none", "other", "unknown", "token"}, cookie : BOOLEAN, origin : BOOLEAN]

NoConfig == [flows |-> {}, mailer |-> FALSE, given |-> {}, required |-> FALSE,
             allow |-> FALSE, deny |-> FALSE, tokens |-> FALSE]

GatesInit ==
  /\ stage = "boot"
  /\ config = NoConfig
  /\ target = <<>>
  /\ class = "none"
  /\ told = "none"
  /\ session = Nobody

\* What this request may carry: only an account has tokens.
Carried == {cred \in Credentials : session = Nobody => cred.authorization # "token"}

RulesGiven == config.allow \/ config.deny

-----------------------------------------------------------------------------
(* Signing in                                                              *)

\* fetch_user_info: the address a provider answers with, if it says it verified
\* it.  Facebook never says, and its address is taken as pending.
Brought(p, address, vouched) == IF vouched \/ p = "facebook" THEN address ELSE "none"

\* authorize_oauth_emails: whatever address the provider brings must pass, and
\* under rules there must be one; a pending address stands in.
OAuthAdmits(brought) == RulesGiven => brought = "passing"

\* Mutant of MaySignIn: a flow that is not offered still answers.
MaySignInAnyhow(via, verified, address, vouched) ==
  /\ RulesGiven => verified # "denied"
  /\ CASE via = "username" -> RulesGiven => verified = "passing"
       [] via \in Oauth -> OAuthAdmits(Brought(via, address, vouched))
       [] OTHER -> address # "none" /\ (RulesGiven => address # "denied")

\* A sign-in by this flow, of an account with these verified addresses, with
\* an address the rules pass, deny, or none.
MaySignIn(via, verified, address, vouched) ==
  /\ via \in config.flows
  /\ RulesGiven => verified # "denied"
  /\ CASE via = "username" -> RulesGiven => verified = "passing"
       [] via \in Oauth -> OAuthAdmits(Brought(via, address, vouched))
       [] OTHER -> address # "none" /\ (RulesGiven => address # "denied")

\* The account after it: a magic link verifies its address.
VerifiedAfter(via, verified, address) ==
  IF via \in {"magic_link", "magic_code"} /\ verified = "none" THEN address ELSE verified

\* Whether the owner was shown to hold an address the rules pass.
Proves(via, verified, address, vouched) ==
  \/ verified = "passing"
  \/ via \in {"magic_link", "magic_code"} /\ address = "passing"
  \/ via \in Vouching /\ vouched /\ address = "passing"

-----------------------------------------------------------------------------
(* The doors                                                               *)

Refuses == RulesGiven /\ session.verified = "denied"
Holds == config.required /\ session.verified = "none"

\* personal_access_token_auth and the session: who asks, "stop" if an answer
\* was given already.
AuthenticateHttp(cred) ==
  LET bearer == config.tokens /\ cred.authorization \in {"unknown", "token"} IN
  CASE bearer /\ (cred.authorization = "unknown" \/ Refuses \/ Holds) -> "stop"
    [] bearer /\ cred.authorization = "token" /\ ~Refuses /\ ~Holds -> "token"
    [] OTHER -> IF session # Nobody /\ cred.cookie THEN "session" ELSE "nobody"

\* authenticate_ws_upgrade and authenticate_ws_session
AuthenticateWs(cred) ==
  IF session = Nobody \/ Refuses \/ Holds THEN "stop"
  ELSE CASE cred.authorization = "token" /\ config.tokens -> "token"
         [] cred.authorization = "none" /\ cred.cookie /\ cred.origin -> "session"
         [] OTHER -> "stop"

\* Mutant of ProxyAdmits: an optional path lets in whoever asks.
ProxyAdmitsOptional(c, who) ==
  /\ c # "bad" /\ who # "stop"
  /\ \/ c \in {"public", "optional"}
     \/ who # "nobody" /\ ~Refuses /\ ~(who = "session" /\ Holds)

\* sign_in_required
ProxyAdmits(c, who) ==
  /\ c # "bad" /\ who # "stop"
  /\ \/ c = "public"
     \/ c = "optional" /\ who = "nobody"
     \/ who # "nobody" /\ ~Refuses /\ ~(who = "session" /\ Holds)

\* Whether the upstream gets the request, and whom X-Auth-User names.
ProxyAnswer(c, who) ==
  [in |-> ProxyAdmits(c, who),
   as |-> IF ProxyAdmits(c, who) /\ c # "public" THEN who ELSE "nobody"]

\* sidecar_get, which judges the path it is told of.
SidecarAnswer(c, who) ==
  IF who = "stop" THEN [in |-> FALSE, as |-> "nobody"]
  ELSE IF c = "public" THEN [in |-> TRUE, as |-> "nobody"]
  ELSE IF who = "nobody" THEN [in |-> c = "optional", as |-> "nobody"]
  ELSE IF Refuses \/ (who = "session" /\ Holds) THEN [in |-> FALSE, as |-> "nobody"]
  ELSE [in |-> TRUE, as |-> who]

\* Mutant of IsInboundIdentity: the name as it is spelled.
IsInboundIdentitySpelled(name) == IsPrefix(<<"x", "-", "auth", "-">>, name)

\* is_inbound_identity_header
IsInboundIdentity(name) == IsPrefix(<<"x", "-", "auth", "-">>, Translated(name, "_", "-"))

\* FORWARDED_HEADERS
ForwardedHeaders ==
  {<<"forwarded">>, <<"x", "-", "real", "-", "ip">>, <<"x", "-", "original", "-", "url">>,
   <<"x", "-", "rewrite", "-", "url">>, <<"x", "-", "original", "-", "host">>,
   <<"x", "-", "host">>, <<"x", "-", "client", "-", "ip">>,
   <<"true", "-", "client", "-", "ip">>, <<"cf", "-", "connecting", "-", "ip">>,
   <<"x", "-", "cluster", "-", "client", "-", "ip">>, <<"x", "-", "proxyuser", "-", "ip">>}

\* set_forwarded_headers
IsForwarded(name) ==
  LET folded == Translated(name, "_", "-") IN
  IsPrefix(<<"x", "-", "forwarded", "-">>, folded) \/ folded \in ForwardedHeaders

\* clean_headers, proxyReq and proxyReqWs: the client's headers that go on.
SentOn == {name \in Headers : ~IsInboundIdentity(name) /\ ~IsForwarded(name)}

-----------------------------------------------------------------------------
(* Steps                                                                   *)

\* The process starts, or refuses to.
Configure ==
  /\ stage = "boot"
  /\ \E s \in Settings :
       IF Refused(s)
       THEN stage' = "exited" /\ UNCHANGED config
       ELSE stage' = "up" /\ config' = Resolved(s)
  /\ UNCHANGED <<target, class, told, session>>

Receive(t) ==
  /\ stage = "up"
  /\ stage' = "arrived"
  /\ target' = t
  /\ UNCHANGED <<config, class, told, session>>

\* The reverse proxy tells the sidecar the target, and passes the client's copy
\* of the other header.
Judge(uris) ==
  /\ stage = "arrived"
  /\ stage' = "judged"
  /\ class' = IF IsOriginForm(target) THEN PathClass(PathOf(target)) ELSE "bad"
  /\ told' = PathClass(SidecarPath(<<target>> \o uris))
  /\ target' = <<>>
  /\ UNCHANGED <<config, session>>

\* The request has the session a sign-in under this configuration opened ...
ComeSignedIn(via, verified, address, vouched) ==
  /\ stage = "judged"
  /\ MaySignIn(via, verified, address, vouched)
  /\ stage' = "in"
  /\ session' = [via |-> via, verified |-> VerifiedAfter(via, verified, address),
                 proven |-> Proves(via, verified, address, vouched)]
  /\ UNCHANGED <<config, target, class, told>>

\* ... or one from before it, when other rules held, or none.
ComeOlder(verified) ==
  /\ stage = "judged"
  /\ stage' = "in"
  /\ session' = [via |-> "older", verified |-> verified, proven |-> FALSE]
  /\ UNCHANGED <<config, target, class, told>>

ComeAnonymous ==
  /\ stage = "judged"
  /\ stage' = "in"
  /\ UNCHANGED <<config, target, class, told, session>>

Respond ==
  /\ stage = "in"
  /\ stage' = "up"
  /\ class' = "none"
  /\ told' = "none"
  /\ session' = Nobody
  /\ UNCHANGED <<config, target>>

GatesNext ==
  \/ Configure
  \/ \E t \in Targets : Receive(t)
  \/ \E uris \in {<<>>} \cup {<<t>> : t \in Forged} : Judge(uris)
  \/ \E via \in Flow, verified, address \in Verified, vouched \in BOOLEAN :
       ComeSignedIn(via, verified, address, vouched)
  \/ \E verified \in Verified : ComeOlder(verified)
  \/ ComeAnonymous
  \/ Respond

GatesSpec == GatesInit /\ [][GatesNext]_gatesVars

-----------------------------------------------------------------------------
(* Properties                                                              *)

\* The types; a request that has a session came by a flow the process offers,
\* or from before.
GatesTypeOK ==
  /\ stage \in {"boot", "exited", "up", "arrived", "judged", "in"}
  /\ config \in [flows : SUBSET Flow, mailer : BOOLEAN, given : SUBSET Oauth,
                 required : BOOLEAN, allow : BOOLEAN, deny : BOOLEAN, tokens : BOOLEAN]
  /\ target \in Targets \cup {<<>>}
  /\ class \in {"none", "bad", "public", "optional", "private"}
  /\ told \in {"none", "public", "optional", "private"}
  /\ session \in Session \cup {Nobody}
  /\ session # Nobody => session.via \in config.flows \cup {"older"}

\* A target taken for public is public to whatever upstream acts on it, be it
\* one that decodes twice, reads "\" as "/", keeps "#" or, if no public path
\* holds a ";", drops ";params" (canonical_path, target_path, is_origin_form).
PublicAsServed ==
  (stage = "arrived" /\ IsOriginForm(target) /\ IsPublicPath(PathOf(target))) =>
    \A habits \in SUBSET Habit :
      ArePlain(PublicPaths) \/ "params" \notin habits => PathMatches(PublicPaths, Served(target, habits))

\* The sidecar answers as the proxy would, and when a client names it another
\* path it lets in nobody the proxy would not; the upgrade lets in nobody the
\* proxy would turn away, nor as someone else (sidecar_get, sign_in_required,
\* authenticate_ws_upgrade).
DoorsAgree ==
  stage = "in" =>
    \A cred \in Carried :
      LET who == AuthenticateHttp(cred) IN
      /\ told = class => SidecarAnswer(told, who) = ProxyAnswer(class, who)
      /\ (class # "bad" /\ SidecarAnswer(told, who).in) => ProxyAnswer(class, who).in
      /\ AuthenticateWs(cred) # "stop" =>
           ProxyAnswer("private", who) = [in |-> TRUE, as |-> AuthenticateWs(cred)]

\* Under a list of allowed addresses nobody who signed in since the process
\* started reaches the upstream by name unless an address the list passes was
\* proven to be theirs: what the flows admit, what confirmation is required
\* and what the doors ask leave no gap between them.
WhoEntersIsProven ==
  (stage = "in" /\ config.allow /\ session.via \in Flow) =>
    \A cred \in Carried :
      LET who == AuthenticateHttp(cred) IN
      ProxyAnswer("private", who).in => session.proven

\* A process that runs offers only flows it can serve: mail is sent for those
\* that need it, and a provider has its credentials.
FlowsAreServed ==
  /\ config.flows \cap {"email", "magic_link", "magic_code"} # {} => config.mailer
  /\ config.flows \cap Oauth \subseteq config.given

\* The headers among them that an upstream which takes "-" and "_" for one
\* reads as an identity or a forwarded address.
Pretending ==
  {name \in SentOn : LET read == Translated(name, "-", "_") IN
     \/ IsPrefix(<<"x", "_", "auth", "_">>, read)
     \/ IsPrefix(<<"x", "_", "forwarded", "_">>, read)
     \/ \E h \in ForwardedHeaders : read = Translated(h, "-", "_")}

\* No header a client sent is read as an identity or a forwarded address, by
\* an upstream that spells names its own way (is_inbound_identity_header,
\* set_forwarded_headers).
NothingIsPretended == stage = "in" => Pretending = {}
=============================================================================
