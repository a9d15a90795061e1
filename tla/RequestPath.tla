----------------------------- MODULE RequestPath ----------------------------
(***************************************************************************)
(* How the path of a request target is judged, and how upstreams act on    *)
(* the same target.                                                        *)
(*                                                                         *)
(* A target is a sequence of tokens: "/", ".", "..", ";", "#", "?", "\\",  *)
(* names, percent-encoded separators and dots, once ("%2f") or twice       *)
(* ("%252f"), "%" for an encoding that cannot be decoded, and "origin" for *)
(* the scheme and host of an absolute URL.  <<>> is no path.               *)
(***************************************************************************)
EXTENDS Naturals, Sequences, SequencesExt, FiniteSetsExt

\* What begins the parameters of a segment.
Semicolon == ";"

CONSTANTS
  Token,         \* what targets and header names are written in
  PublicPaths,   \* config.public_paths: [path, prefix], a prefix ends in "/"
  OptionalPaths  \* config.optional_auth_paths

ASSUME RequestPathAssumption ==
  /\ {".", "/", "\\", "%2e", "%2f"} \subseteq Token
  /\ \A entry \in PublicPaths \cup OptionalPaths : entry.path \in Seq(Token)

\* parse_paths splits a text at ";", so that no path holds one, but not a list,
\* which settings.yml may give.
ArePlain(paths) == \A entry \in paths : Semicolon \notin ToSet(entry.path)

Before(s, token) ==
  LET at == {i \in DOMAIN s : s[i] = token} IN
  IF at = {} THEN s ELSE SubSeq(s, 1, Min(at) - 1)

\* What one decoding makes of a token.
Decoding ==
  [t \in {"%2e", "%2f", "%5c", "%252e", "%252f"} |->
     CASE t = "%2e" -> "." [] t = "%2f" -> "/" [] t = "%5c" -> "\\"
       [] t = "%252e" -> "%2e" [] t = "%252f" -> "%2f"]

Decoded(p) == [i \in DOMAIN p |-> IF p[i] \in DOMAIN Decoding THEN Decoding[p[i]] ELSE p[i]]

\* Whether a segment of the path ends with its n-th token.
EndsAt(p, n) == n = Len(p) \/ p[n + 1] = "/"

\* The last segment of a path, and what comes before its "/".
LastSlash(p) == Max({0} \cup {i \in DOMAIN p : p[i] = "/"})
LastSegment(p) == SubSeq(p, LastSlash(p) + 1, Len(p))
Parent(p) == SubSeq(p, 1, LastSlash(p) - 1)

IsDot(seg) == seg = <<".">>
IsDotDot(seg) == seg \in {<<"..">>, <<".", ".">>}

\* The path without ";params": what follows a ";" up to the next "/".
InParams(p, n) == \E i \in 1..n : p[i] = Semicolon /\ \A j \in i..n : p[j] # "/"
KeptStep(p, kept, n) == IF InParams(p, n) THEN kept ELSE Append(kept, p[n])
Bare(p) ==
  LET kept[n \in 0..Len(p)] == IF n = 0 THEN <<>> ELSE KeptStep(p, kept[n - 1], n)
  IN  kept[Len(p)]

\* posix.normalize leaves the path as it is.
IsNormal(p) ==
  \A n \in DOMAIN p : EndsAt(p, n) =>
    LET seg == LastSegment(SubSeq(p, 1, n)) IN
    /\ ~IsDot(seg)
    /\ ~IsDotDot(seg)
    /\ seg = <<>> => n = Len(p)

-----------------------------------------------------------------------------
(* Judging                                                                 *)

IsOriginForm(t) == t # <<>> /\ Head(t) = "/" /\ "#" \notin ToSet(t)

\* target_path
PathOf(t) ==
  LET p == IF t # <<>> /\ Head(t) = "origin" THEN Tail(t) ELSE t IN
  IF IsOriginForm(p) THEN Before(p, "?") ELSE <<>>

\* Mutant of CanonicalPath: ";params" are forgotten.
CanonicalPathWhole(p) ==
  LET d == Decoded(p) IN
  IF /\ p # <<>>
     /\ ToSet(p) \cap {"%"} = {}
     /\ ToSet(d) \cap {"\\", "%2e", "%2f"} = {}
     /\ IsNormal(d)
  THEN d ELSE <<>>

\* canonical_path: the path decoded, if it is what any upstream would act on.
CanonicalPath(p) ==
  LET d == Decoded(p) IN
  IF /\ p # <<>>
     /\ ToSet(p) \cap {"%"} = {}
     /\ ToSet(d) \cap {"\\", "%2e", "%2f"} = {}
     /\ IsNormal(d)
     /\ IsNormal(Bare(d))
  THEN d ELSE <<>>

PathMatches(paths, p) ==
  \E entry \in paths : IF entry.prefix THEN IsPrefix(entry.path, p) ELSE p = entry.path

\* is_public_path and is_optional_auth_path
IsPublicPath(p) == LET c == CanonicalPath(p) IN c # <<>> /\ PathMatches(PublicPaths, c)
IsOptionalAuthPath(p) == LET c == CanonicalPath(p) IN c # <<>> /\ PathMatches(OptionalPaths, c)

PathClass(p) ==
  IF IsPublicPath(p) THEN "public" ELSE IF IsOptionalAuthPath(p) THEN "optional" ELSE "private"

\* sidecar_original_path: the headers of the two reverse proxies must agree.
SidecarPath(uris) ==
  LET paths == {PathOf(uris[i]) : i \in DOMAIN uris} IN
  IF Cardinality(paths) = 1 THEN CHOOSE p \in paths : TRUE ELSE <<>>

-----------------------------------------------------------------------------
(* Upstreams                                                               *)

\* What some upstreams do besides decoding once and resolving dots: decode
\* again, read "\" as "/", drop ";params", cut the fragment.
Habit == {"again", "backslash", "params", "fragment"}

\* A path whose last segment is complete, with that segment resolved; "last" if
\* no other follows.
SegmentResolved(out, last) ==
  LET slash == IF last THEN <<"/">> ELSE <<>> IN
  IF IsDotDot(LastSegment(out)) THEN Parent(Parent(out)) \o slash
  ELSE IF IsDot(LastSegment(out)) \/ LastSegment(out) = <<>> THEN Parent(out) \o slash
  ELSE out

\* Dots resolved and slashes merged, token by token.
OutStep(p, out, n) ==
  IF EndsAt(p, n) THEN SegmentResolved(Append(out, p[n]), n = Len(p)) ELSE Append(out, p[n])
DotsResolved(p) ==
  LET out[n \in 0..Len(p)] == IF n = 0 THEN <<>> ELSE OutStep(p, out[n - 1], n)
  IN  out[Len(p)]

Translated(p, from, to) == [i \in DOMAIN p |-> IF p[i] = from THEN to ELSE p[i]]

\* The path an upstream with these habits acts on.
Served(target, habits) ==
  LET path  == Before(target, "?")
      cut   == IF "fragment" \in habits THEN Before(path, "#") ELSE path
      once  == Decoded(cut)
      twice == IF "again" \in habits THEN Decoded(once) ELSE once
      slash == IF "backslash" \in habits THEN Translated(twice, "\\", "/") ELSE twice
  IN  DotsResolved(IF "params" \in habits THEN Bare(slash) ELSE slash)
=============================================================================
