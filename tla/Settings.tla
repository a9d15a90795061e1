------------------------------ MODULE Settings ------------------------------
(***************************************************************************)
(* make_config: what the process runs with, from the environment and       *)
(* settings.yaml, or why it refuses to start.                              *)
(*                                                                         *)
(* A flow is "username", "email" (both with a password), "magic_link",     *)
(* "magic_code", "facebook" or a provider in Vouching; the code's pairs of *)
(* switches (enabled, allow_email, mode) are one set of flows here.        *)
(***************************************************************************)
EXTENDS Naturals, Sequences

CONSTANT
  Vouching  \* OAuth providers that say which addresses they verified

ASSUME SettingsAssumption ==
  Vouching \cap {"username", "email", "magic_link", "magic_code", "facebook", "older"} = {}

Oauth == Vouching \cup {"facebook"}
Flow == {"username", "email", "magic_link", "magic_code"} \cup Oauth

\* Values of AUTHWALL_MAGIC_LINK and AUTHWALL_CONFIRM_EMAIL; "other" stands
\* for any value they do not know.
Channel == {"auto", "off", "link", "code", "link_and_code", "other"}
Mode == {"link", "code", "link_and_code"}

\* Mailers in the order they are looked for.
MailerOrder == <<"resend", "mailjet", "ses">>

(* What is set: the switches of the password flow; the two channels; the   *)
(* mailer, with those whose credentials are complete; the providers whose  *)
(* three credentials are; AUTHWALL_FLOWS, {} for auto; what is said of     *)
(* confirmation; whether there are allow rules, and deny rules; tokens.    *)
Setting ==
  [password : BOOLEAN, username : BOOLEAN, email : BOOLEAN,
   magic : Channel, confirm : Channel,
   mailer : BOOLEAN, provider : {"auto", "fake", "resend", "mailjet", "ses"},
   complete : SUBSET {"resend", "mailjet", "ses"},
   given : SUBSET Oauth, flows : SUBSET Flow,
   required : {"unset", "yes", "no"}, allow : BOOLEAN, deny : BOOLEAN,
   tokens : BOOLEAN]

-----------------------------------------------------------------------------
(* The mailer                                                              *)

\* The mailer asked for, or the first one with credentials.
MailerProvider(s) ==
  LET found == SelectSeq(MailerOrder, LAMBDA m : m \in s.complete) IN
  IF s.provider # "auto" THEN s.provider
  ELSE IF found # <<>> THEN Head(found) ELSE "fake"

MailerRefused(s) == s.mailer /\ MailerProvider(s) \notin {"fake"} \cup s.complete

\* A fake mailer nobody asked for is no mailer.
MailerEnabled(s) == s.mailer /\ (MailerProvider(s) # "fake" \/ s.provider = "fake")

-----------------------------------------------------------------------------
(* Flows                                                                   *)

\* parse_magic_link_setting
ChannelRefused(s, value) == value \in Mode /\ ~MailerEnabled(s)
ChannelEnabled(s, value) == value \in Mode \/ (value = "auto" /\ MailerEnabled(s))
ChannelMode(value) == IF value \in Mode THEN value ELSE "link_and_code"

MagicFlows(s) ==
  {f \in {"magic_link"} : ChannelEnabled(s, s.magic) /\ ChannelMode(s.magic) # "code"}
    \cup {f \in {"magic_code"} : ChannelEnabled(s, s.magic) /\ ChannelMode(s.magic) # "link"}

\* Mutant of AvailableFlows: the password flow takes addresses without a mailer.
AvailableFlowsUnmailed(s) ==
  {f \in {"username"} : s.password /\ s.username}
    \cup {f \in {"email"} : s.password /\ s.email}
    \cup MagicFlows(s)
    \cup s.given

\* The flows that have what they need.
AvailableFlows(s) ==
  {f \in {"username"} : s.password /\ s.username}
    \cup {f \in {"email"} : s.password /\ s.email /\ MailerEnabled(s)}
    \cup MagicFlows(s)
    \cup s.given

\* parse_flows_setting: a list names available flows only; left to itself the
\* process takes the providers, or else whatever is available.
FlowsRefused(s) == ~(s.flows \subseteq AvailableFlows(s))
EnabledFlows(s) ==
  IF s.flows # {} THEN s.flows
  ELSE IF s.given # {} THEN s.given
  ELSE AvailableFlows(s)

-----------------------------------------------------------------------------
(* Confirmation and access rules                                           *)

\* The flows whose addresses arrive unconfirmed.
PendingFlow == {"email", "facebook"}

\* resolve_email_verification_required
VerificationRequired(s) ==
  CASE s.required = "unset" ->
         "email" \in EnabledFlows(s) \/ ("facebook" \in EnabledFlows(s) /\ s.allow)
    [] OTHER -> s.required = "yes"

VerificationRefused(s) == VerificationRequired(s) /\ EnabledFlows(s) \cap PendingFlow = {}

\* Mutant of RulesRefused: a list of allowed addresses is taken as it is.
RulesRefusedUnproven(s) == (s.allow \/ s.deny) /\ EnabledFlows(s) \subseteq {"username"}

\* validate_email_access_rules
RulesRefused(s) ==
  \/ (s.allow \/ s.deny) /\ EnabledFlows(s) \subseteq {"username"}
  \/ s.allow /\ EnabledFlows(s) \cap PendingFlow # {} /\ ~VerificationRequired(s)

-----------------------------------------------------------------------------
(* The whole                                                               *)

Refused(s) ==
  \/ MailerRefused(s)
  \/ ChannelRefused(s, s.magic)
  \/ ChannelRefused(s, s.confirm)
  \/ FlowsRefused(s)
  \/ VerificationRefused(s)
  \/ RulesRefused(s)

Resolved(s) ==
  [flows |-> EnabledFlows(s), mailer |-> MailerEnabled(s), given |-> s.given,
   required |-> VerificationRequired(s), allow |-> s.allow, deny |-> s.deny,
   tokens |-> s.tokens]
=============================================================================
