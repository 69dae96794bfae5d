CONSTANTS
    Channels = {"token"}
    Integrations = {"n8n"}
    Clients = {c1, c2}
    Secrets = {"s1", "s2"}
    Keys = {"k1", "k2"}
SPECIFICATION Spec
INVARIANTS
    TypeOK
    StringsAreSealed
    LastPutIsKept
