----------------------------- MODULE PrefixList -----------------------------
(***************************************************************************)
(* Planning one entry of an IOS prefix-list (reroute/prefix_list.rs).      *)
(*                                                                         *)
(* IOS walks a prefix-list in sequence order and stops at the first entry  *)
(* that matches; an entry written at an occupied sequence replaces what is *)
(* there.  plan_add chooses the sequence of a new permit so that the walk  *)
(* reaches it; plan_remove names the one entry to delete.  A list is a set *)
(* of entries with pairwise different sequences: parse_prefix_list refuses *)
(* any other read, and sorts what it accepts.                              *)
(*                                                                         *)
(* A route is [net, len].  Width is the number of address bits (32 in the  *)
(* code), MAX_SEQ the last sequence IOS accepts.  An optional ge or le is  *)
(* NoBound when it is absent.                                              *)
(***************************************************************************)
EXTENDS Integers, FiniteSets

CONSTANTS Width, MAX_SEQ, APPEND_STEP

NoBound == -1

ASSUME PrefixListAssumption ==
    /\ Width \in Nat
    /\ MAX_SEQ \in Nat \ {0}
    /\ APPEND_STEP \in Nat \ {0}

MIN_SEQ == 1

\* One printed entry is well formed.
parse_entry(e) ==
    /\ e.seq \in MIN_SEQ..MAX_SEQ /\ e.len \in 0..Width
    /\ {e.ge, e.le} \subseteq {NoBound} \cup 0..Width

\* A read is the count that the header declares and the entries it shows.  A
\* truncated read, a sequence shown twice or a malformed entry is refused.
parse_prefix_list(read) ==
    IF /\ read.declared = Cardinality(read.shown)
       /\ \A e \in read.shown : parse_entry(e)
       /\ \A e, f \in read.shown : e.seq = f.seq => e = f
    THEN [ok |-> TRUE, entries |-> read.shown]
    ELSE [ok |-> FALSE, entries |-> {}]

\* a and b agree on their first len bits.
same_network(a, b, len) ==
    a \div 2^(Width - len) = b \div 2^(Width - len)

\* Does the entry match the route?  Without ge and le only the entry's own
\* length; ge alone opens the range to the longest prefix.
Matches(e, r) ==
    LET low  == IF e.ge # NoBound THEN e.ge ELSE e.len
        high == IF e.le # NoBound THEN e.le
                ELSE IF e.ge # NoBound THEN Width ELSE e.len
    IN  same_network(e.net, r.net, e.len) /\ low <= r.len /\ r.len <= high

\* The entry is this route and nothing else.
is_exactly(e, r) ==
    e.net = r.net /\ e.len = r.len /\ e.ge = NoBound /\ e.le = NoBound

Matching(list, r) == {e \in list : Matches(e, r)}

\* The entry IOS stops at.
FirstMatch(list, r) ==
    CHOOSE e \in Matching(list, r) :
        \A f \in Matching(list, r) : e.seq <= f.seq

\* A route that no entry matches is denied.
Permits(list, r) == Matching(list, r) # {} /\ FirstMatch(list, r).permit

\* The largest sequence in S, 0 for none.
Last(S) == IF S = {} THEN 0 ELSE CHOOSE s \in S : \A t \in S : t <= s

Use(s) == [plan |-> "use", seq |-> s]
Refuse == [plan |-> "refuse", seq |-> 0]
AlreadySatisfied == [plan |-> "already", seq |-> 0]

\* Never a sequence that is out of range or occupied.
free_or_refuse(s, list) ==
    IF s \in MIN_SEQ..MAX_SEQ /\ \A e \in list : e.seq # s THEN Use(s) ELSE Refuse

\* 0 when there is no integer strictly between low and high.
midpoint(low, high) ==
    IF high <= low + 1 THEN 0 ELSE low + (high - low) \div 2

plan_append(list) ==
    LET last == Last({e.seq : e \in list})
        candidate == IF last + APPEND_STEP > MAX_SEQ THEN MAX_SEQ ELSE last + APPEND_STEP
    IN  IF candidate <= last THEN Refuse ELSE free_or_refuse(candidate, list)

\* A shadowed permit appended past the deny that shadows it.
plan_before_Appends(list, shadow) == plan_append(list)

plan_before(list, shadow) ==
    LET previous == Last({e.seq : e \in {f \in list : f.seq < shadow.seq}})
        candidate == midpoint(previous, shadow.seq)
    IN  IF candidate = 0 THEN Refuse ELSE free_or_refuse(candidate, list)

\* Where a permit of r goes: after the end when nothing matches r, before the
\* deny that shadows it, nowhere when r is permitted already.
plan_add(list, r) ==
    IF Matching(list, r) = {} THEN plan_append(list)
    ELSE IF FirstMatch(list, r).permit THEN AlreadySatisfied
    ELSE plan_before(list, FirstMatch(list, r))

\* Which entry to delete so that r is no longer permitted.
plan_remove(list, r) ==
    IF ~Permits(list, r) THEN AlreadySatisfied
    ELSE IF ~is_exactly(FirstMatch(list, r), r) THEN Refuse
    ELSE Use(FirstMatch(list, r).seq)

Permit(s, r) ==
    [seq |-> s, permit |-> TRUE, net |-> r.net, len |-> r.len,
     ge |-> NoBound, le |-> NoBound]

\* The list after the planned command.
AfterAdd(list, s, r) == list \cup {Permit(s, r)}
AfterRemove(list, s) == {e \in list : e.seq # s}
=============================================================================
