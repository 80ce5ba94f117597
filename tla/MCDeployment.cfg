\* Two activations and a deactivation, overlapping and dropped, under a changing
\* environment, with restarts; a token of one of their routers.
CONSTANTS
    a1 = a1
    a2 = a2
    d1 = d1
    d2 = d2
    p1 = p1
    p2 = p2
    t1 = t1
    k1 = k1
    k2 = k2
    short = short
    Unset = Unset
    None = None
    Activations = {a1, a2}
    Deactivations = {d1}
    Pools = {p1, p2}
    Environments <- FewEnvironments
    LongSecrets = {k1, k2}
    Faults = TRUE
    Tokens = {t1}
SPECIFICATION DeploymentSpec
SYMMETRY Symmetry
INVARIANTS
    TypeOK
    PublishedServiceIsReady
    ActiveMeansPublished
    LastCallSettles
    ValidatorsAgree
    ReactivationFollowsEnvironment
    SessionsSurviveReactivation
