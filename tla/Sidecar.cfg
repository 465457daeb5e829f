SPECIFICATION Spec
CONSTANTS
    dev = dev
    cloud = cloud
    verdict = verdict
    other = other
    Instances = {dev, cloud}
    Keys = {1, 2, 3}
    Volumes = {{}, {1, 3}}
    EnvKey <- MCEnvKey
    NoKey = nokey
    Ephemeral = {dev}
    Contents = {verdict, other}
    Never = never
    MaxTime = 1
    MaxIssued = 2
SYMMETRY MCSymmetry
INVARIANTS
    SigningKeyPersists
    OneKeyPerDirectory
    TrustFollowsValidity
    OnlySignedVerifies
