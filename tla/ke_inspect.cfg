SPECIFICATION Spec
CONSTANTS
    n1 = n1
    n2 = n2
    kubernetes = kubernetes
    Names = {n1, n2, kubernetes}
    Builtin = {kubernetes}
    NoName = NoName
    Absent = Absent
    MaxReplicas = 2
INVARIANT LastingIssuesShow
INVARIANT CountsFit
SYMMETRY Perms
CHECK_DEADLOCK FALSE
