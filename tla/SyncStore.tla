------------------------------ MODULE SyncStore ------------------------------
(***************************************************************************)
(* What one user's storage promises, whatever backend keeps it: every      *)
(* request that writes takes effect in one step, at one timestamp that is  *)
(* not in the future and is later than the collection's, and touches       *)
(* nothing outside what it names.  There are no transactions, locks or     *)
(* sessions here; SpannerRequests and MysqlRequests are shown to implement *)
(* this module.                                                            *)
(***************************************************************************)
EXTENDS Integers

CONSTANTS Collections, Tombstone, Ids, MaxTime,
          Bodies   \* columns a write supplies; -2 for one it does not

VARIABLES now, uc, bso

NotGiven == -2
NoModified == -1
Nothing == [mod |-> NoModified, exp |-> 0, val |-> 0]

\* A timestamp a write to c may take.
Timestamp(c, ts) == ts <= now /\ ts > uc[c]

\* Supplied columns replace, others stay; a new BSO takes the defaults.  Only
\* a content, not a ttl alone, makes a BSO newer.
WrittenOver(row, body, ts) ==
    [mod |-> IF row # Nothing /\ body.val = NotGiven THEN row.mod ELSE ts,
     exp |-> IF body.ttl # NotGiven THEN ts + body.ttl
             ELSE IF row # Nothing THEN row.exp ELSE ts + MaxTime + 1,
     val |-> IF body.val # NotGiven THEN body.val
             ELSE IF row # Nothing THEN row.val ELSE 0]

Written(c, i, body, ts) == WrittenOver(bso[c][i], body, ts)

Write(c, ids, body, ts) ==
    /\ Timestamp(c, ts)
    /\ uc' = [uc EXCEPT ![c] = ts]
    /\ bso' = [bso EXCEPT ![c] =
                 [i \in Ids |-> IF i \in ids THEN Written(c, i, body, ts)
                                ELSE @[i]]]
    /\ UNCHANGED now

Remove(c, ids, ts) ==
    /\ Timestamp(c, ts)
    /\ uc' = [uc EXCEPT ![c] = ts]
    /\ bso' = [bso EXCEPT ![c] =
                 [i \in Ids |-> IF i \in ids THEN Nothing ELSE @[i]]]
    /\ UNCHANGED now

\* The collection goes; its deletion is remembered in the tombstone.
RemoveCollection(c, ts) ==
    /\ Timestamp(c, ts)
    /\ uc[c] # NoModified \/ \E i \in Ids : bso[c][i] # Nothing
    /\ uc' = [uc EXCEPT ![c] = NoModified, ![Tombstone] = ts]
    /\ bso' = [bso EXCEPT ![c] = [i \in Ids |-> Nothing]]
    /\ UNCHANGED now

RemoveStorage ==
    /\ uc' = [k \in Collections \cup {Tombstone} |-> NoModified]
    /\ bso' = [c \in Collections |-> [i \in Ids |-> Nothing]]
    /\ UNCHANGED now

\* A BSO past its expiry disappears without its collection changing.
Expire(c, i) ==
    /\ bso[c][i].exp < now
    /\ bso' = [bso EXCEPT ![c][i] = Nothing]
    /\ UNCHANGED <<now, uc>>

Advance == now < MaxTime /\ now' = now + 1 /\ UNCHANGED <<uc, bso>>

Init ==
    /\ now = 1
    /\ uc = [k \in Collections \cup {Tombstone} |-> NoModified]
    /\ bso = [c \in Collections |-> [i \in Ids |-> Nothing]]

Next ==
    \/ \E c \in Collections, ids \in SUBSET Ids, ts \in 1..MaxTime :
          \/ \E body \in Bodies : Write(c, ids, body, ts)
          \/ Remove(c, ids, ts)
          \/ RemoveCollection(c, ts)
    \/ RemoveStorage
    \/ \E c \in Collections, i \in Ids : Expire(c, i)
    \/ Advance

Spec == Init /\ [][Next]_<<now, uc, bso>>
=============================================================================
