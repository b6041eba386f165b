------------------------------- MODULE Parameters -------------------------------
(* What a plan takes from the catalog, the configuration and the client:        *)
(* validation at start-up (internal/catalog, internal/config), parameters       *)
(* (catalog.ResolveParameters) and the directories below approved roots         *)
(* (internal/paths, internal/security/selinux).  A text is the sequence of its  *)
(* components between slashes: "" is <<Empty>>, "/a" is <<Empty, a>>, and a     *)
(* number is a text of one component.                                           *)
(*                                                                              *)
(* A definition whose name ends in Bug is the one that follows it with one      *)
(* mistake in it.  Nothing uses it: the properties are tested against it.       *)
EXTENDS Integers, SequencesExt

CONSTANTS
    Components,
    Empty, Dot, DotDot,
    LineBreak, Nul,     \* components with such a character
    Long,               \* a component that makes a text longer than 4096 bytes
    Decimals            \* the components that are integers

ASSUME ComponentsAssumption ==
    /\ {Empty, Dot, DotDot, LineBreak, Nul, Long} \subseteq Components
    /\ Decimals \subseteq Components \cap Int
    /\ Decimals \cap {Empty, Dot, DotDot, LineBreak, Nul, Long} = {}
    /\ Empty \notin {Dot, DotDot, LineBreak, Nul, Long} /\ Dot # DotDot

Value == Seq(Components) \ {<<>>}

None == <<Empty>>
Has(text, component) == \E i \in DOMAIN text : text[i] = component
IsNumber(text) == Len(text) = 1 /\ text[1] \in Decimals

(* filepath.IsAbs, and filepath.Clean of a relative path.                       *)
IsAbs(path) == Len(path) > 1 /\ path[1] = Empty

CleanComponent(cleaned, c) ==
    IF c \in {Empty, Dot} THEN cleaned
    ELSE IF c = DotDot /\ cleaned # <<>> /\ Last(cleaned) # DotDot THEN Front(cleaned)
    ELSE Append(cleaned, c)

Clean(path) ==
    LET cleaned == FoldLeft(CleanComponent, <<>>, path) IN IF cleaned = <<>> THEN <<Dot>> ELSE cleaned

CleanRelative(path) == path # None /\ ~IsAbs(path) /\ Clean(path) = path /\ path # <<Dot>>

--------------------------------------------------------------------------------
(* The catalog: an application has inputs [name, type, required, default],      *)
(* directories [root, input, intent, readOnly] and the Podman version it needs. *)

InputTypes == {"string", "path", "port", "integer"}
Intents == {"private", "shared", "readonly-media", "cache", "database"}

InputNames(app) == {in.name : in \in app.inputs}

(* Validate: what it requires of inputs and directories.                        *)
ValidApplication(app) ==
    /\ \A in, other \in app.inputs : in.name = other.name => in = other
    /\ \A in \in app.inputs : in.type \in InputTypes
    /\ \A d \in app.directories : d.input \in InputNames(app) /\ d.intent \in Intents

(* ".." alone is a clean relative path here; Resolve refuses it.                *)
ValidInput(type, v) ==
    CASE type = "path" ->
            /\ CleanRelative(v)
            /\ ~(Len(v) > 1 /\ v[1] = DotDot)
            /\ ~\E i \in 2 .. Len(v) - 1 : v[i] = DotDot
      [] type = "port" -> IsNumber(v) /\ v[1] \in 1 .. 65535
      [] type = "integer" -> IsNumber(v)
      [] type = "string" -> ~Has(v, Long)
      [] OTHER -> TRUE

DefaultOf(app, n) == (CHOOSE in \in app.inputs : in.name = n).default

(* ResolveParameters: the catalog's defaults under what was supplied ...        *)
Resolved(app, supplied) ==
    [n \in InputNames(app) |-> IF n \in DOMAIN supplied THEN supplied[n] ELSE DefaultOf(app, n)]

(* Leaves the second look at the values out, so that defaults are never checked.*)
AcceptsBug(app, supplied) ==
    \A in \in app.inputs :
        /\ in.name \in DOMAIN supplied => ValidInput(in.type, supplied[in.name])
        /\ in.required => Resolved(app, supplied)[in.name] # None

(* ... unless something supplied is unknown, has control characters or is not   *)
(* of its type (an empty value is not), or a required value is empty, or a      *)
(* default that is not empty is not of its type.                                *)
Accepts(app, supplied) ==
    /\ DOMAIN supplied \subseteq InputNames(app)
    /\ \A in \in app.inputs :
          /\ in.name \in DOMAIN supplied =>
                /\ ~Has(supplied[in.name], LineBreak) /\ ~Has(supplied[in.name], Nul)
                /\ ValidInput(in.type, supplied[in.name])
          /\ LET v == Resolved(app, supplied)[in.name] IN
             IF v = None THEN ~in.required ELSE ValidInput(in.type, v)

--------------------------------------------------------------------------------
(* Directories.  The configuration is a set of roots [id, host, agent].         *)

ValidConfiguration(roots) ==
    /\ \A r, other \in roots : r.id = other.id => r = other
    /\ \A r \in roots : IsAbs(r.host) /\ IsAbs(r.agent)

(* Trusts the validation of the input.                                          *)
ResolvesBug(rel) == CleanRelative(rel)

Resolves(rel) ==
    /\ CleanRelative(rel)
    /\ \A c \in {Empty, Dot, DotDot, Nul} : ~Has(rel, c)

(* selinux.MountSuffix.                                                         *)
Mountable(d) == d.intent = "readonly-media" => d.readOnly

MountSuffix(d) ==
    (IF d.readOnly THEN {"ro"} ELSE {})
        \cup (CASE d.intent \in {"private", "cache", "database"} -> {"Z"}
                [] d.intent = "shared" -> {"z"}
                [] OTHER -> {})

(* resolveDirs: every directory of the application below its root, or an error. *)
DirectoriesResolve(app, params, roots) ==
    \A d \in app.directories :
        /\ \E r \in roots : r.id = d.root
        /\ Resolves(params[d.input]) /\ Mountable(d)

Directories(app, params, roots) ==
    {LET r == CHOOSE r \in roots : r.id = d.root
         rel == params[d.input]
     IN  [root |-> r.id, rel |-> rel, host |-> r.host \o rel, agent |-> r.agent \o rel,
          suffix |-> MountSuffix(d)] : d \in app.directories}

================================================================================
