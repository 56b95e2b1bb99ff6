------------------------------ MODULE MCConfig ------------------------------
(***************************************************************************)
(* Config for TLC: two devices of one name, one of which tells where it is *)
(* plugged in, pipes with room for two sinks, and all profiles of up to    *)
(* MaxLines lines over three rules, which match both devices, one and      *)
(* none; the files share pipes, fill them, and have a filter that is       *)
(* refused behind others that are not.                                     *)
(***************************************************************************)
EXTENDS Config

CONSTANTS d1, d2, MaxLines

MCInputName == [d \in {d1, d2} |-> "keyboard"]
MCInputPhys == d1 :> "usb" @@ d2 :> None
MCInputNode == "event1" :> d1 @@ "mouse0" :> None

Rule(type, value) == [type |-> type, value |-> value]
File(f) == [type |-> "File", file |-> f]

Both == Rule("Name", "keyboard")
One == Rule("Phys", "usb")
NoNode == Rule("Device", "event9")

MCFiles == [two |-> <<"q", "p">>, one |-> <<"p">>, bad |-> <<"q", Bad>>,
            plain |-> <<Plain>>, gone |-> Missing]

ProfileLines == {Both, One, NoNode} \cup {File(f) : f \in DOMAIN MCFiles}

\* The other ways a rule may match or not.
OtherRules ==
    {Rule("Device", "event1"), Rule("Device", "mouse0"), Rule("Name", "mouse"),
     Rule("Phys", "pci"), Rule("Bits", "EV_REL"), Rule("Bus", "0003")}

\* File lines before the first rule are skipped: one profile begins with some.
MCProfiles ==
    {<<File("two"), One, File("one")>>}
        \cup {<<r>> \o s : r \in {Both, One, NoNode},
                          s \in BoundedSeq(ProfileLines, MaxLines - 1)}
        \cup {<<r, File("one"), q, File("plain")>> :
                  r \in OtherRules, q \in OtherRules \cup {Both, One}}
=============================================================================
