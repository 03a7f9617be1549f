---------------------------- MODULE MCResolution ----------------------------
(* One request against six experiments that differ in selectors and directories. *)
EXTENDS ResolutionProperties

CONSTANTS
    shot, machine,                        \* attributes
    below, above, near, exact, nested, other,   \* experiments; nobody registers other
    mast, old, notes,                     \* names: "old" is a text that begins with a 2
    coil, flux                            \* texts of paths

McHalf       == 4
McMaxIndex   == McHalf - 1
McKeys       == {coil, flux}
McTexts      == {mast, old, notes}
McLeading    == [t \in McTexts |-> IF t = old THEN 2 ELSE None]
McAttributes == {shot, machine}
McNames      == McTexts \cup (-5 .. 4)

McExperiments == {below, above, near, exact, nested}

By(attribute, selector) == [attribute |-> attribute, selector |-> selector]
McPartitionsOf == [e \in McExperiments |->
    CASE e = below  -> <<By(shot, "MAX_BELOW")>>
      [] e = above  -> <<By(shot, "MIN_ABOVE")>>
      [] e = near   -> <<By(shot, "CLOSEST")>>
      [] e = exact  -> <<By(shot, "EXACT")>>
      [] e = nested -> <<By(machine, "EXACT"), By(shot, "CLOSEST")>>]

Coil  == <<coil>>          \* a group "coil"
Coils == <<coil, Hash>>    \* a group "coil[#]"
McGroups == {Coil, Coils}
McGroupsOf == [e \in McExperiments |-> IF e = nested THEN <<Coil, Coils>> ELSE <<Coils, Coil>>]

Below(dir, names) == {Append(dir, n) : n \in names}
Shots == {-3, 0, 2, old}
McTree ==
    {<<e, g>> : e \in McExperiments, g \in McGroups}
    \cup Below(<<below, Coil>>, Shots)   \cup Below(<<below, Coils>>, {-4, 1, 3})
    \cup Below(<<above, Coil>>, {-4, 3}) \cup Below(<<above, Coils>>, Shots)
    \cup Below(<<near, Coil>>, Shots)    \cup Below(<<near, Coils>>, {})
    \cup Below(<<exact, Coil>>, {-2, 2, 4, mast}) \cup Below(<<exact, Coils>>, {-2, 2, mast, notes})
    \cup Below(<<nested, Coil>>, {mast, 2})  \cup Below(<<nested, Coils>>, {mast})
    \cup Below(<<nested, Coil, mast>>, {-1, 3}) \cup Below(<<nested, Coil, 2>>, {notes, 1})
    \cup Below(<<nested, Coils, mast>>, {-4, 0, 3})

\* Names in the mappings.json of every directory but one.
McMappings ==
    {<<<<flux>>>>, <<<<flux, Hash>>>>, <<<<flux, Hash>>, <<flux, 2>>>>,
     <<<<flux, 2>>, <<flux, Hash>>>>, <<<<flux, Hash, 1>>>>, <<<<flux, 1>>, <<flux, 1>>>>, <<<<coil>>, <<flux, 3>>>>}
McMappingsIn == [d \in McTree |-> IF d = <<near, Coil, -3>> THEN None ELSE McMappings]

Integer(n) == [kind |-> "integer", is |-> n]
String(s)  == [kind |-> "string", is |-> s]
Shotted    == {Integer(n) : n \in -6 .. 6} \cup {String(2), String(mast), None,
                                                  [kind |-> "other", is |-> notes]}
Machines   == {String(mast), Integer(2), String(notes)}
Attributed(s, m) == [a \in McAttributes |-> IF a = shot THEN s ELSE m]

Plain == <<<<coil>>, <<flux>>>>
Paths == {Plain, << >>, <<<<flux>>, <<flux>>>>, <<<<coil, 4>>, <<flux>>>>,
          <<<<coil>>, <<flux, 2>>>>, <<<<coil, 1>>, <<flux, 2>>>>,
          <<<<coil>>, <<flux, 1>>, <<flux, 2>>>>, <<<<coil, 3>>, <<flux, 1>>, <<flux, 2>>>>,
          <<<<coil>>, <<flux, 1>>, <<flux, 1>>>>, <<<<coil>>, <<flux, 0, 1>>>>,
          <<<<coil>>, <<flux, 2>>, <<flux, 1>>>>, <<<<coil>>, <<flux>>, <<flux, 2>>>>,
          <<<<coil>>, <<flux, 3>>>>, <<<<coil>>, <<flux, 1, 3>>>>}

McRequests ==
    [path: {Plain}, exp: McExperiments, given: {Attributed(s, m) : s \in Shotted, m \in Machines}]
    \cup [path: Paths, exp: {below, other}, given: {Attributed(Integer(2), None)}]

=============================================================================
