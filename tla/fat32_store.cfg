CONSTANTS
    CLUSTER_MAP_SIZE = 6
    FAT_SECTOR = 4
    DIR_ENTRIES = 4
    COUNT_MOD = 4
    nameA = nameA
    nameB = nameB
    root = root
    rootLabel = rootLabel
    zeroName = zeroName
    small = small
    large = large
    folder = folder
    Name <- MCName
    ROOT_NAME = root
    FORMAT_NAME = rootLabel
    NO_NAME = zeroName
    Payload <- MCLargeOnly
    FOLDER = folder
    ClustersOf <- MCTwoClusters
    Capacities = {1, 2}
    Images = {"sample"}
    Callers = {"populated"}
    Faults = {"crash"}
SPECIFICATION FairSpec
PROPERTIES ImplementsFileStore Completes
