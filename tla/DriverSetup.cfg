SPECIFICATION Spec
CONSTANTS
  MAX_N_REGIONS = 2
  MAX_NUM_CHANNELS = 2
  N_ACTIVE_QUEUES = 1
  N_MEM_BLOCKS = 2
  Shells <- MCShells
  Addresses = {0, 1}
  MaxReloads = 2
  Writers <- MCWriters
  Platforms = {"xdma", "qdma", "guest", "mdev"}
  Environments <- MCEnvironments
INVARIANTS ReleasesOnce UsersHaveDevice AddressInForce
CHECK_DEADLOCK FALSE
