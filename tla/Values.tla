------------------------------- MODULE Values -------------------------------
(***************************************************************************)
(* pkg/validate/config.go: values against the #config schema of a module.  *)
(* A schema is the fields it allows and those of them without a default; a *)
(* value gives contents to fields, and the content Wrong is one that no    *)
(* schema accepts.                                                         *)
(***************************************************************************)
EXTENDS Integers, Sequences

CONSTANTS
    NoSchema,   \* the module has no #config
    Nothing,    \* no merged values
    Wrong       \* a content outside the type of its field

\* The schema taken as a value: its defaults.
Defaults(schema) == [f \in schema.allows \ schema.needs |-> "default"]

walkDisallowed(schema, value) == DOMAIN value \ schema.allows

SchemaErrors(schema, value, requireConcrete) ==
    walkDisallowed(schema, value)
    \cup {f \in DOMAIN value : value[f] = Wrong}
    \cup (IF requireConcrete THEN schema.needs \ DOMAIN value ELSE {})

Conflicts(values) ==
    {f \in UNION {DOMAIN values[i] : i \in DOMAIN values} :
        \E i, j \in DOMAIN values :
            /\ f \in DOMAIN values[i] \cap DOMAIN values[j]
            /\ values[i][f] # values[j][f]}

Merge(values) ==
    [f \in UNION {DOMAIN values[i] : i \in DOMAIN values} |->
        values[CHOOSE i \in DOMAIN values : f \in DOMAIN values[i]][f]]

\* Every value on its own, then the merged value, which must be concrete.
ConfigErrors(schema, values) ==
    LET early == Conflicts(values)
                 \cup UNION {SchemaErrors(schema, values[i], FALSE) : i \in DOMAIN values}
    IN  IF early # {} THEN early ELSE SchemaErrors(schema, Merge(values), TRUE)

\* Without a schema or without values nothing is merged and nothing is checked.
Unchecked(schema, values) == schema = NoSchema \/ values = <<>>

ConfigFails(schema, values) ==
    ~Unchecked(schema, values) /\ ConfigErrors(schema, values) # {}

Config(schema, values) ==
    IF Unchecked(schema, values) THEN Nothing ELSE Merge(values)

=============================================================================
