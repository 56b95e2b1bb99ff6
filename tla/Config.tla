------------------------------- MODULE Config -------------------------------
(***************************************************************************)
(* How the filters of a line come and go: evf_line_create() reads the      *)
(* profile (src/src/evf_profile.c) line by line, loads the configuration   *)
(* files of the rules that match (src/src/evf_loader.c) filter by filter,  *)
(* appends them (src/src/evf_filter.c), and evf_line_destroy() frees them. *)
(* from_pipe filters register with the pipes of Pipes.                     *)
(*                                                                         *)
(* The daemon does one of these at a time, but the lines of other devices  *)
(* are there, with their pipes.                                            *)
(***************************************************************************)
EXTENDS Pipes, FiniteSets

CONSTANTS
    Device,     \* input devices
    input_name, input_phys,     \* what each answers to the ioctl()s, or None
    input_node, \* the device behind each path there is in the file system
    Filter,     \* struct evf_filter at their addresses
    Profiles,   \* profiles: sequences of rules and File lines
    Files,      \* the filters in each file, or Missing for a file that is not
                \* there; a file that is not JSON is like one with a bad filter
    Missing, None

Plain == "plain"
Bad == "bad"

\* The lists of the program a filter may be on, the line of a device aside.
Work == {"filters", "tmp", "doomed", "leaked"}

ASSUME ConfigAssumption ==
    /\ IsFiniteSet(Filter)
    /\ None \notin Name \cup {Plain}
    /\ Device \cap Work = {}

\* A profile is made of rules and File lines, a file of filters.
ASSUME ProfilesAssumption ==
    /\ Profiles \subseteq Seq([type : {"File"}, file : DOMAIN Files]
                                  \cup [type : STRING \ {"File"}, value : STRING])
    /\ \A n \in DOMAIN Files :
          Files[n] = Missing \/ Files[n] \in Seq(Name \cup {Plain, Bad})

VARIABLES
    profile,    \* the profile of the system
    reg,        \* the registry of pipes
    conf,       \* the configuration of each allocated filter, or None
    held,       \* priv->pipe of each from_pipe filter, or 0
    line,       \* the filters of each device's line, none for no line
    pc,         \* "idle", "profile", "file" or "free"
    dev,        \* the device a line is created for
    pos,        \* the line of the profile
    matched,    \* has_matched
    filters,    \* the filters of the files loaded so far
    tmp,        \* those of the current file
    todo,       \* the rest of the file
    err,        \* err->type is not evf_ok
    doomed,     \* the filters evf_filters_free() has still to free
    after,      \* where the program goes on then
    leaked,     \* history: filters no pointer is left to
    refused     \* history: File lines of which each device's line has nothing

filterVars == <<reg, conf, held>>
lineVars == <<line, leaked, refused>>
profileVars == <<dev, pos, matched, filters, err>>
fileVars == <<tmp, todo>>
freeVars == <<doomed, after>>
vars == <<profile, filterVars, lineVars, pc, profileVars, fileVars, freeVars>>

Line == profile[pos]

-----------------------------------------------------------------------------
(* evf_filters_free()                                                      *)

Free(list, next) ==
    /\ pc' = "free"
    /\ doomed' = list
    /\ after' = next

\* evf_filter_free(), with from_pipe_free() for a filter that holds a pipe.
FreeFilter ==
    /\ pc = "free"
    /\ doomed # << >>
    /\ LET f == Head(doomed)
       IN  /\ reg' = IF held[f] = 0 THEN reg
                     ELSE Put(RemSink(reg, held[f], f), held[f])
           /\ held' = [held EXCEPT ![f] = 0]
           /\ conf' = [conf EXCEPT ![f] = None]
    /\ doomed' = Tail(doomed)
    /\ UNCHANGED <<profile, lineVars, pc, profileVars, fileVars, after>>

FreeDone ==
    /\ pc = "free"
    /\ doomed = << >>
    /\ pc' = after
    /\ UNCHANGED <<profile, filterVars, lineVars, profileVars, fileVars, freeVars>>

-----------------------------------------------------------------------------
(* evf_loader.c                                                            *)

\* evf_filter_alloc() finds memory, at an address that CHOOSE stands for.
Memory == \E f \in Filter : conf[f] = None
NewFilter == CHOOSE f \in Filter : conf[f] = None

\* The filter is made and linked behind the last one of its file.
Link(c) ==
    /\ conf' = [conf EXCEPT ![NewFilter] = c]
    /\ tmp' = Append(tmp, NewFilter)
    /\ todo' = Tail(todo)
    /\ UNCHANGED <<pc, lineVars, freeVars>>

GiveUpLeaking ==    \* mutant: the filters made so far are not freed
    /\ Free(<< >>, "file")
    /\ tmp' = << >>
    /\ todo' = << >>
    /\ refused' = [refused EXCEPT ![dev] = @ \cup {pos}]
    /\ UNCHANGED <<conf, held, line, leaked>>

\* filters_from_json() gives up the file, and nobody is told: err is left alone.
GiveUp ==
    /\ Free(tmp, "file")
    /\ tmp' = << >>
    /\ todo' = << >>
    /\ refused' = [refused EXCEPT ![dev] = @ \cup {pos}]
    /\ UNCHANGED <<conf, held, line, leaked>>

\* evf_from_pipe_alloc(), which gives the pipe back when it has no room.
FromPipe(n) ==
    LET p == Got(reg, n)
        r == Get(reg, n)
    IN  \/ /\ p # 0
           /\ ~Full(r, p)
           /\ Link(n)
           /\ held' = [held EXCEPT ![NewFilter] = p]
           /\ reg' = AddSink(r, p, NewFilter)
        \/ p # 0 /\ Full(r, p) /\ GiveUp /\ reg' = Put(r, p)
        \/ p = 0 /\ GiveUp /\ UNCHANGED reg

\* filter_from_json() of the next element of the array.
LoadFilter ==
    /\ pc = "file"
    /\ todo # << >>
    /\ \/ /\ Head(todo) = Bad \/ ~Memory
          /\ GiveUp
          /\ UNCHANGED reg
       \/ /\ Head(todo) = Plain /\ Memory
          /\ Link(Plain)
          /\ UNCHANGED <<reg, held>>
       \/ /\ Head(todo) \in Name /\ Memory
          /\ FromPipe(Head(todo))
    /\ UNCHANGED <<profile, profileVars>>

-----------------------------------------------------------------------------
(* evf_profile.c                                                           *)

\* evf_load_profile() is called with an err that device_plugged() (evfd.c:73)
\* has not initialised: it may look like an error.
Create(d) ==
    /\ pc = "idle"
    /\ line[d] = << >>
    /\ pc' = "profile"
    /\ dev' = d
    /\ pos' = 1
    /\ matched' = 0
    /\ filters' = << >>
    /\ err' \in BOOLEAN
    /\ refused' = [refused EXCEPT ![d] = {}]
    /\ UNCHANGED <<profile, filterVars, line, leaked, fileVars, freeVars>>

\* check_for_matching_rule(), with evf_input_get_name(), evf_input_get_phys() and
\* evf_input_compare(): 1 for a match, 0 for none, below 0 for an error.
CheckForMatchingRule(d, type, value) ==
    LET Equal(a, b) == IF a = b THEN 1 ELSE 0
    IN  CASE type = "Device" -> IF value \notin DOMAIN input_node THEN -3
                                ELSE Equal(input_node[value], d)
          [] type = "Name" -> IF input_name[d] = None THEN -2
                              ELSE Equal(input_name[d], value)
          [] type = "Phys" -> IF input_phys[d] = None THEN -2
                              ELSE Equal(input_phys[d], value)
          [] type = "Bits" -> 0
          [] OTHER -> -1

Matches(d, rule) == CheckForMatchingRule(d, rule.type, rule.value) = 1

MatchKeeps ==       \* mutant: has_matched is not reset behind the files
    /\ pc = "profile"
    /\ pos <= Len(profile) /\ Line.type # "File"
    /\ matched' = IF Matches(dev, Line) THEN 1 ELSE matched
    /\ pos' = pos + 1
    /\ UNCHANGED <<profile, filterVars, lineVars, pc, dev, filters, err, fileVars, freeVars>>

\* A rule, or a word that is none: errors count as no match.
Match ==
    /\ pc = "profile"
    /\ pos <= Len(profile) /\ Line.type # "File"
    /\ matched' = IF Matches(dev, Line) THEN 1
                  ELSE IF matched = -1 THEN 0 ELSE matched
    /\ pos' = pos + 1
    /\ UNCHANGED <<profile, filterVars, lineVars, pc, dev, filters, err, fileVars, freeVars>>

Skip ==
    /\ pc = "profile"
    /\ pos <= Len(profile) /\ Line.type = "File"
    /\ matched = 0
    /\ pos' = pos + 1
    /\ UNCHANGED <<profile, filterVars, lineVars, pc, dev, matched, filters, err,
                   fileVars, freeVars>>

\* A File line when a rule has matched: evf_load_filters() opens the file.
Open ==
    /\ pc = "profile"
    /\ pos <= Len(profile) /\ Line.type = "File"
    /\ matched # 0
    /\ pc' = "file"
    /\ tmp' = << >>
    /\ IF Files[Line.file] = Missing
       THEN err' = TRUE /\ todo' = << >>
       ELSE UNCHANGED err /\ todo' = Files[Line.file]
    /\ UNCHANGED <<profile, filterVars, lineVars, dev, pos, matched, filters, freeVars>>

\* The file is loaded.  With an error, its own or one that was in err before,
\* all is given up; the filters of this very file are not freed.
FileDone ==
    /\ pc = "file"
    /\ todo = << >>
    /\ tmp' = << >>
    /\ IF err
       THEN /\ Free(filters, "idle")
            /\ filters' = << >>
            /\ leaked' = leaked \cup ToSet(tmp)
            /\ UNCHANGED <<pos, matched>>
       ELSE /\ pc' = "profile"
            /\ filters' = filters \o tmp
            /\ matched' = -1
            /\ pos' = pos + 1
            /\ UNCHANGED <<leaked, freeVars>>
    /\ UNCHANGED <<profile, filterVars, line, refused, dev, err, todo>>

-----------------------------------------------------------------------------
(* evf_line.c                                                              *)

\* The end of the profile; a line without filters is not created.
CreateDone ==
    /\ pc = "profile"
    /\ pos > Len(profile)
    /\ pc' = "idle"
    /\ line' = [line EXCEPT ![dev] = filters]
    /\ filters' = << >>
    /\ UNCHANGED <<profile, filterVars, leaked, refused, dev, pos, matched, err,
                   fileVars, freeVars>>

DestroyDangling(d) ==       \* mutant: the line is still there when it is freed
    /\ pc = "idle"
    /\ line[d] # << >>
    /\ Free(line[d], "idle")
    /\ UNCHANGED <<profile, filterVars, lineVars, profileVars, fileVars>>

\* evf_line_destroy()
Destroy(d) ==
    /\ pc = "idle"
    /\ line[d] # << >>
    /\ Free(line[d], "idle")
    /\ line' = [line EXCEPT ![d] = << >>]
    /\ UNCHANGED <<profile, filterVars, leaked, refused, profileVars, fileVars>>

-----------------------------------------------------------------------------
Init ==
    /\ profile \in Profiles
    /\ reg = NoPipes
    /\ conf = [f \in Filter |-> None]
    /\ held = [f \in Filter |-> 0]
    /\ line = [d \in Device |-> << >>]
    /\ pc = "idle"
    /\ dev \in Device
    /\ pos = 1 /\ matched = 0 /\ err = FALSE
    /\ filters = << >> /\ tmp = << >> /\ todo = << >>
    /\ doomed = << >> /\ after = "idle"
    /\ leaked = {}
    /\ refused = [d \in Device |-> {}]

Next ==
    \/ \E d \in Device : Create(d) \/ Destroy(d)
    \/ Match \/ Skip \/ Open \/ LoadFilter \/ FileDone \/ CreateDone
    \/ FreeFilter \/ FreeDone

Spec == Init /\ [][Next]_vars

-----------------------------------------------------------------------------
(* Properties                                                              *)

Holders(p) == {f \in Filter : held[f] = p}

Lists == {line[d] : d \in Device} \cup {filters, tmp, doomed}

\* The state keeps its types, and no list, of a line or of the program on its
\* way, names a filter twice or one that is freed.
TypeOK ==
    /\ pc \in {"idle", "profile", "file", "free"}
    /\ pos \in 1..Len(profile) + 1
    /\ matched \in {-1, 0, 1}
    /\ held \in [Filter -> Pipe \cup {0}]
    /\ \A l \in Lists :
          /\ IsInjective(l)
          /\ \A k \in 1..Len(l) : l[k] \in Filter /\ conf[l[k]] # None

\* evf_pipe_get() and evf_pipe_put() balance over the life of all lines,
\* refused files included: each pipe that is there counts the filters that hold
\* it, none of them holds a pipe that is not there, and none that can be looked
\* up is gone or shares its name with another.
RefsCounted ==
    /\ \A p \in reg.heap : reg.ref[p] = Cardinality(Holders(p))
    /\ \A f \in Filter : held[f] \in reg.heap \cup {0}
    /\ \A j, k \in 1..Len(reg.list) :
          /\ reg.list[k] \in reg.heap
          /\ j # k => reg.name[reg.list[j]] # reg.name[reg.list[k]]

\* evf_pipe_process() calls each filter that holds the pipe once and nothing
\* else, in particular no filter that has been freed.
SinksHeld ==
    \A p \in reg.heap :
        /\ Len(reg.sinks[p]) <= MaxSinks
        /\ IsInjective(reg.sinks[p])
        /\ ToSet(reg.sinks[p]) = Holders(p)

\* A filter that is allocated belongs to one line, or to one of the lists the
\* program is working on: it will be freed once.  The only filters that get lost
\* are those of a file that was loaded while err was set.
FreedOnce ==
    LET work == [filters |-> ToSet(filters), tmp |-> ToSet(tmp),
                 doomed |-> ToSet(doomed), leaked |-> leaked]
        Owners(f) == {d \in Device : f \in ToSet(line[d])}
                       \cup {w \in DOMAIN work : f \in work[w]}
    IN  \A f \in Filter :
            Cardinality(Owners(f)) = IF conf[f] = None THEN 0 ELSE 1

\* The files for device d by docs/profile.txt: a File line is for d when one of
\* the rules before it matches, the rules that come directly before the File
\* lines it is one of.
IsFile(k) == profile[k].type = "File"
For(d, i) ==
    /\ IsFile(i)
    /\ \E j \in 1..i - 1 :
          /\ ~IsFile(j) /\ Matches(d, profile[j])
          /\ \A k \in j + 1..i - 1 : IsFile(k) => \A n \in k..i : IsFile(n)

\* A line has the filters of the files that are for its device, in the order of
\* the profile, of each file all or none, and none of these is freed while the
\* line is there, whatever the lines of other devices have been through.
LineMatchesProfile ==
    \A d \in Device : line[d] # << >> =>
        [k \in 1..Len(line[d]) |-> conf[line[d][k]]]
          = FlattenSeq([i \in 1..Len(profile) |->
                           IF For(d, i) /\ i \notin refused[d]
                           THEN Files[profile[i].file] ELSE << >>])
=============================================================================
