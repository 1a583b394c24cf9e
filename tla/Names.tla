------------------------------- MODULE Names -------------------------------
(***************************************************************************)
(* The NDN names the gateways exchange.  A name is the sequence of its     *)
(* components, without the "/" between them.  boost::split on a URI that   *)
(* starts with "/" yields an empty field 0, so that the code's fileds[i]   *)
(* is component i of the sequence: the indices below are the code's.       *)
(*                                                                         *)
(* A flow key is a record [src, dst, sport, dport].  Addresses and ports   *)
(* are opaque here: the code only prints them.                             *)
(***************************************************************************)
EXTENDS Naturals, Sequences

\* Mutant: the ports are left out of the name.
TcpUid_NoPorts(key, seq) == <<0, 0, seq>>

\* The last component of the names of a numbered packet, "sport-dport-seq".
\* Its fields are those split on "-" gives back: uuid_fileds[0..2] are uid[1..3].
TcpUid(key, seq) == <<key.sport, key.dport, seq>>

\* buildName: types 1 and 2 name a packet by a uuid, 3 and 4 by a sequence
\* number; 1 and 3 are pre-requests, and start with the destination so that
\* they are routed to it; 2 and 4 are the data's, and start with the source.
BuildName(key, type, uid) ==
  << <<"IP", "pre", key.dst, key.src, uid>>,
     <<"IP", key.src, key.dst, uid>>,
     <<"IP", "TCP", "pre", key.dst, key.src, uid>>,
     <<"IP", "TCP", key.src, key.dst, uid>> >>[type]

\* The filters start() registers for an address, with the flags bound into
\* the callback of each.
InterestFilters(ip) ==
  { [prefix |-> <<"IP", "pre", ip>>,        isPre |-> TRUE,  isTCP |-> FALSE],
    [prefix |-> <<"IP", ip>>,               isPre |-> FALSE, isTCP |-> FALSE],
    [prefix |-> <<"IP", "TCP", "pre", ip>>, isPre |-> TRUE,  isTCP |-> TRUE],
    [prefix |-> <<"IP", "TCP", ip>>,        isPre |-> FALSE, isTCP |-> TRUE] }

\* The face calls a filter's callback for the names below the filter's prefix.
Matches(filter, name) ==
  /\ Len(filter.prefix) <= Len(name)
  /\ \A i \in 1..Len(filter.prefix) : filter.prefix[i] = name[i]

\* The data name the destination asks for on a pre-request: source and
\* destination change places, the identifier is kept.
NextName(preName, isTCP) ==
  IF isTCP THEN <<"IP", "TCP", preName[5], preName[4], preName[6]>>
           ELSE <<"IP", preName[4], preName[3], preName[5]>>

\* Mutant: one name too many.
GuessNames_TooMany(preName, num) ==
  LET uid == preName[6]
  IN  { <<"IP", "TCP", preName[5], preName[4], <<uid[1], uid[2], uid[3] + i>> >> :
        i \in 1..(num + 1) }

\* The names guessed after a pre-request: the next num sequence numbers of
\* the same flow.
GuessNames(preName, num) ==
  LET uid == preName[6]
  IN  { <<"IP", "TCP", preName[5], preName[4], <<uid[1], uid[2], uid[3] + i>> >> :
        i \in 1..num }

\* Mutant: the field of the other kind of name.
TargetIp_Swapped(dataName, isTCP) == IF isTCP THEN dataName[3] ELSE dataName[4]

\* The address the content of a data packet is sent to.
TargetIp(dataName, isTCP) == IF isTCP THEN dataName[4] ELSE dataName[3]
=============================================================================
