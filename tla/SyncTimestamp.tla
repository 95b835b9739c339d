---------------------------- MODULE SyncTimestamp ----------------------------
(***************************************************************************)
(* Timestamps as clients send them back: a client that echoes              *)
(* X-Last-Modified in a precondition header, and how the server extracts   *)
(* and parses that header, which goes through a 64 bit float.              *)
(*                                                                         *)
(* A timestamp is [era, off, hund]: 2^era + off seconds since 1970 and     *)
(* hund hundredths, with off < 2^era.                                      *)
(***************************************************************************)
EXTENDS Integers

CONSTANTS Moments, \* when the collection may have been written
          Later    \* when others write it again

Timestamp == [era : 15..31, off : Nat, hund : 0..99]

ASSUME SyncTimestampAssumption == Moments \subseteq Timestamp /\ Later \in Timestamp

VARIABLES
    modified, \* the collection's timestamp
    header,   \* X-Last-Modified as the client knows it, or NoHeader
    result    \* the answer to the client's last conditional request, and
              \* whether the collection had changed since it was given the header

stampVars == <<modified, header, result>>

NoHeader == [era |-> 0, off |-> 0, hund |-> 0]

After(s, t) ==
    \/ s.era > t.era
    \/ s.era = t.era /\ s.off > t.off
    \/ s.era = t.era /\ s.off = t.off /\ s.hund > t.hund

-----------------------------------------------------------------------------
(* The conversions.                                                        *)

\* format_ts: two decimals of milliseconds that are a multiple of ten.
AsHeader(t) == t

\* What parse::<f64> rounds off, in hundredths of the float's last place, which
\* is 2^(era - 52): of hund / 100 seconds * 2^(52 - era), what is left by 100.
PowMod[k \in 0..37] == IF k = 0 THEN 1 ELSE (2 * PowMod[k - 1]) % 100
Rounded(t) == (t.hund * PowMod[52 - t.era]) % 100

\* The product by 1000 has 9 or 10 bits more before the point: 9 below 1.024 * 2^era.
\* Half of its last place, in the units of Rounded over 10.
HalfPlace(t) ==
    LET high == t.off \div 32768
        low  == t.off % 32768
    IN  IF 125 * high + (125 * low + (5 * t.hund) \div 4) \div 32768 < 3 * 2^(t.era - 15)
        THEN 256 ELSE 512

Before10ms(t) ==
    IF t.hund > 0 THEN [t EXCEPT !.hund = @ - 1]
    ELSE [t EXCEPT !.hund = 99, !.off = @ - 1]

\* Mutant of FromHeader: the product is rounded to seconds, up.
FromHeaderRoundedUp(h) == IF h.hund = 0 THEN h ELSE [h EXCEPT !.off = @ + 1, !.hund = 0]

\* Mutant of FromHeader: the product is truncated to seconds.
FromHeaderSeconds(h) == [h EXCEPT !.hund = 0]

\* from_header truncates the product to milliseconds and those to ten: it is ten
\* less if the value was rounded down by more than the product's rounding restores.
FromHeader(h) ==
    IF Rounded(h) < 50 /\ 10 * Rounded(h) > HalfPlace(h) THEN Before10ms(h) ELSE h

-----------------------------------------------------------------------------
Read ==
    /\ header' = AsHeader(modified)
    /\ UNCHANGED <<modified, result>>

\* Another client writes.
Write ==
    /\ After(Later, modified)
    /\ modified' = Later
    /\ UNCHANGED <<header, result>>

\* PreConditionHeaderOpt.extrude of the two headers, NoHeader for one not sent.
Extrude(since, unless) ==
    IF since # NoHeader /\ unless # NoHeader THEN [kind |-> "conflict"]
    ELSE IF since # NoHeader THEN [kind |-> "modified", at |-> FromHeader(since)]
    ELSE IF unless # NoHeader THEN [kind |-> "unmodified", at |-> FromHeader(unless)]
    ELSE [kind |-> "none"]

\* The answer of transaction_http, before the handler is called.
Status(precondition) ==
    CASE precondition.kind = "conflict" -> 400
      [] precondition.kind = "modified" /\ ~After(modified, precondition.at) -> 304
      [] precondition.kind = "unmodified" /\ After(modified, precondition.at) -> 412
      [] OTHER -> 200

\* A client sends X-If-Modified-Since, X-If-Unmodified-Since, both or none.
Conditional ==
    /\ header # NoHeader
    /\ \E since, unless \in {header, NoHeader} :
          result' = [of      |-> Extrude(since, unless).kind,
                     status  |-> Status(Extrude(since, unless)),
                     changed |-> After(modified, header)]
    /\ UNCHANGED <<modified, header>>

StampInit ==
    /\ modified \in Moments
    /\ header = NoHeader
    /\ result = [of |-> "nothing", status |-> 0, changed |-> FALSE]

StampNext == Read \/ Write \/ Conditional

StampSpec == StampInit /\ [][StampNext]_stampVars

-----------------------------------------------------------------------------
(* A client that echoes the X-Last-Modified it was given is told of every    *)
(* change since: its write is refused and its read is answered in full       *)
(* (from_header never gives a later time than the header's).                 *)
ChangesAreNoticed ==
    result.changed => /\ result.of = "unmodified" => result.status = 412
                      /\ result.of = "modified" => result.status = 200

(* It is refused only for a change (from_header: "Assumes the string         *)
(* represents the seconds since epoch with two decimal places of             *)
(* precision").                                                              *)
RefusedOnlyForChanges == result.status = 412 => result.changed
=============================================================================
